---- MODULE Spec2Model ----
(***************************************************************************)
(* The ADS discovery server of pilot (package v2, ads.go): the stream loop *)
(* of StreamAggregatedResources, the client registry (adsClients and the   *)
(* node-id index), the EDS cluster index and the broadcast adsPushAll.     *)
(***************************************************************************)
EXTENDS Integers, Sequences, FiniteSets, TLC

\* ------------------------------------------------------------------ bounds
NumConns == 2
MaxRequests == 4
MaxShared == 2
MaxNodeRequests == 2
MaxBroadcasts == 2
MaxStuckBroadcasts == 3
MaxTicks == 1

Conns == 1..NumConns

\* --------------------------------------------------------- program constants
SendTimeout == 5
PushTimeout == 5
timeZero == 0

ClusterType == "Cluster"
ListenerType == "Listener"
RouteType == "Route"
EndpointType == "Endpoint"
OtherType == "Secret"
TypeUrls == {ClusterType, ListenerType, RouteType, EndpointType, OtherType}

\* ------------------------------------------------------------------ inputs
\* A node id string "type~ip~id~domain" is the sequence of its fields; the
\* empty string is the empty sequence.
EmptyNodeId == <<>>
MalformedNodeId == <<"sidecar", "10.0.0.5">>
NodeA == <<"sidecar", "10.0.0.5", "a", "ns">>
NodeB == <<"sidecar", "10.0.0.6", "b", "ns">>
NodeIds == {EmptyNodeId, MalformedNodeId, NodeA, NodeB}

ClusterLists == {<<>>, <<"c1">>, <<"c2">>, <<"c1", "c2">>}
RouteLists == {<<>>, <<"r1">>, <<"r2">>, <<"r1", "r2">>}
ClusterNames == {"c1", "c2"}

ResourceNamesOf(t) ==
  IF t = RouteType THEN RouteLists
  ELSE IF t = EndpointType THEN ClusterLists
  ELSE {<<>>}

DiscoveryRequests ==
  UNION {{[Node |-> n, TypeUrl |-> t, ResourceNames |-> r, ErrorDetail |-> e] :
            n \in NodeIds, r \in ResourceNamesOf(t), e \in BOOLEAN} : t \in TypeUrls}

\* Outcome of one push: generated and sent, the registry adapter failed, the
\* transport Send returned an error, or the Send did not complete in time.
PushResults == {"ok", "conferr", "senderr", "timeout"}
Failures == PushResults \ {"ok"}

Range(s) == {s[i] : i \in 1..Len(s)}

VARIABLES
  con,          \* XdsConnection of each stream
  pc,           \* position of each stream's goroutine
  ret,          \* value returned by StreamAggregatedResources
  adsClients,   \* conID -> connection, as a set of <<conID, c>>
  adsSidecarIDConnectionsMap,  \* node ID -> conID -> connection, as <<ID, conID, c>>
  edsClusters,  \* cluster name -> EdsClients (conID -> connection)
  connectionNumber,  \* counter behind connectionID
  tmpMap,       \* adsPushAll: connections of the snapshot still to signal
  now,          \* the clock, in seconds
  lastOp,       \* history: the operation of the last step
  budget,       \* requests each stream may still receive, for the bounds
  inputs,       \* the requests the clients of this run send
  faults,       \* the push failures that occur in this run
  nbroadcast,   \* broadcasts still to come, for the bounds
  nticks,       \* ticks of the clock so far, for the bounds
  task,         \* the goroutines followed call by call: what each runs and holds
  step,         \* history: the instruction a goroutine executed in the last step
  build         \* history: the last call of a config generator, with its result

vars == <<con, pc, ret, adsClients, adsSidecarIDConnectionsMap, edsClusters,
          connectionNumber, tmpMap, now, lastOp, budget, inputs, faults, nbroadcast, nticks,
          task, step, build>>

\* ------------------------------------------------ goroutines, step by step
Tasks == {"stream", "adsPushAll", "edsClientCount"}
NoTask == [prog |-> <<>>, held |-> {}, calls |-> 0, sending |-> 0,
           added |-> FALSE, clusters |-> 0, returned |-> FALSE]
NoStep == [task |-> "", instr |-> <<"", "">>, held |-> {}]
NoBuild == [call |-> "", in |-> <<>>, out |-> <<>>]

NoConID == <<>>
NoWatch == [TypeUrl |-> "", ResourceNames |-> <<>>]

newXdsConnection ==
  [ConID |-> NoConID, modelNode |-> <<>>, pushChannel |-> 0, doneChannel |-> "open",
   Clusters |-> <<>>, Routes |-> <<>>, LDSWatch |-> FALSE, CDSWatch |-> FALSE,
   added |-> FALSE, LastPush |-> timeZero, LastPushFailure |-> timeZero]

\* log: the pushes and counts of the step; wt: its increments of writeTimeout;
\* again: the step handled the request that the step before it handled, on the same stream
NoOp == [kind |-> "init", c |-> 0, req |-> NoWatch, log |-> <<>>, wt |-> 0, again |-> FALSE]

\* b, reqs, fs and nb fix the run: the requests each stream receives, the
\* requests clients send, the push failures that occur, the broadcasts made.
InitAds(b, reqs, fs, nb) ==
  /\ con = [c \in Conns |-> newXdsConnection]
  /\ pc = [c \in Conns |-> "idle"]
  /\ ret = [c \in Conns |-> "none"]
  /\ adsClients = {}
  /\ adsSidecarIDConnectionsMap = {}
  /\ edsClusters = [n \in ClusterNames |-> {}]
  /\ connectionNumber = 0
  /\ tmpMap = {}
  /\ now = 1
  /\ lastOp = NoOp
  /\ budget = b
  /\ inputs = reqs
  /\ faults = fs
  /\ nbroadcast = nb
  /\ nticks = 0

\* A run of the streams and broadcasts alone: no goroutine is followed
\* instruction by instruction and no generator is called.
InitRun(b, reqs, fs, nb) ==
  /\ InitAds(b, reqs, fs, nb)
  /\ task = [t \in Tasks |-> NoTask]
  /\ step = NoStep
  /\ build = NoBuild

InitWith(b, reqs, fs) == InitRun(b, reqs, fs, MaxBroadcasts)

\* ------------------------------------------------------------ pure helpers
\* model.ParseServiceNode: four fields, else an error.
ParseServiceNode(id) ==
  IF Len(id) = 4
  THEN [ok |-> TRUE, node |-> <<[Type |-> id[1], IPAddress |-> id[2], ID |-> id[3], Domain |-> id[4]]>>]
  ELSE [ok |-> FALSE, node |-> <<>>]

\* connectionID: the node id combined with a process-wide counter.
connectionID(node, counter) == <<node, counter + 1>>

\* m[k] = v on a map kept as a set of <<k, v>>
MapPut(m, k, v) == {p \in m : p[1] # k} \cup {<<k, v>>}
MapDel(m, k) == {p \in m : p[1] # k}

\* ------------------------------------------------------------ EDS index
\* addEdsCon: edsClusters[clusterName].EdsClients[conID] = connection
addEdsCon(eds, clusterName, conID, c) ==
  [eds EXCEPT ![clusterName] = MapPut(@, conID, c)]

\* removeEdsCon: delete(edsClusters[clusterName].EdsClients, conID)
removeEdsCon(eds, clusterName, conID, c) ==
  [eds EXCEPT ![clusterName] = MapDel(@, conID)]

RECURSIVE addEdsCons(_, _, _, _)
\* for _, c := range con.Clusters { s.addEdsCon(c, con.ConID, con) }
addEdsCons(eds, clusters, conID, c) ==
  IF clusters = <<>> THEN eds
  ELSE addEdsCons(addEdsCon(eds, Head(clusters), conID, c), Tail(clusters), conID, c)

RECURSIVE removeEdsCons(_, _, _, _)
\* for _, c := range con.Clusters { s.removeEdsCon(c, conID, con) }
removeEdsCons(eds, clusters, conID, c) ==
  IF clusters = <<>> THEN eds
  ELSE removeEdsCons(removeEdsCon(eds, Head(clusters), conID, c), Tail(clusters), conID, c)

\* ------------------------------------------------------------ pushes
\* send that counts the timeout and carries on as if the response was sent.
sendTimeoutNotFatal(res) ==
  IF res = "timeout" THEN [err |-> "nil", writeTimeout |-> 1]
  ELSE IF res = "senderr" THEN [err |-> "send error", writeTimeout |-> 0]
  ELSE [err |-> "nil", writeTimeout |-> 0]

\* con.send: the transport error, or "timeout sending" after SendTimeout,
\* with the increment of writeTimeout
send(res) ==
  IF res = "timeout" THEN [err |-> "timeout sending", writeTimeout |-> 1]
  ELSE IF res = "senderr" THEN [err |-> "send error", writeTimeout |-> 0]
  ELSE [err |-> "nil", writeTimeout |-> 0]

\* pushRoute: the adapter's error, else the error of send; one log entry
pushRoute(res) ==
  [log |-> <<<<RouteType, res>>>>,
   err |-> IF res = "conferr" THEN "config error" ELSE send(res).err,
   wt |-> IF res = "conferr" THEN 0 ELSE send(res).writeTimeout]

pushCds(res) ==
  [log |-> <<<<ClusterType, res>>>>,
   err |-> IF res = "conferr" THEN "config error" ELSE send(res).err,
   wt |-> IF res = "conferr" THEN 0 ELSE send(res).writeTimeout]

pushLds(res) ==
  [log |-> <<<<ListenerType, res>>>>,
   err |-> IF res = "conferr" THEN "config error" ELSE send(res).err,
   wt |-> IF res = "conferr" THEN 0 ELSE send(res).writeTimeout]

pushEds(res) ==
  [log |-> <<<<EndpointType, res>>>>,
   err |-> IF res = "conferr" THEN "config error" ELSE send(res).err,
   wt |-> IF res = "conferr" THEN 0 ELSE send(res).writeTimeout]

\* The responses a handler delivered: the types of its successful pushes.
IsSent(e) == e[2] = "ok"
Sent(log) == [i \in 1..Len(SelectSeq(log, IsSent)) |-> SelectSeq(log, IsSent)[i][1]]

\* ------------------------------------------------------------ stream loop
\* What one pass through the select leaves behind: the connection, the EDS
\* index, what was pushed and counted, and how the pass ended: "continue",
\* "break" (out of the switch, on to registration) or "return" (with err).
Pass(cn, eds, p, flow) ==
  [con |-> cn, eds |-> eds, log |-> p.log, flow |-> flow, err |-> p.err, wt |-> p.wt]
NoPush == [log |-> <<>>, err |-> "nil", wt |-> 0]
AfterPush(cn, eds, p) ==
  Pass(cn, eds, p, IF p.err # "nil" THEN "return" ELSE "break")
\* cdsReject, ldsReject, edsReject: counted for an ACK that carries error_detail
Reject(req, counted) ==
  [log |-> IF req.ErrorDetail /\ counted THEN <<<<req.TypeUrl, "reject">>>> ELSE <<>>,
   err |-> "nil", wt |-> 0]

\* CaseCluster that pushes again when the ACK carries error_detail.
CaseClusterRepush(cn, eds, req, res) ==
  IF cn.CDSWatch /\ ~req.ErrorDetail
  THEN Pass(cn, eds, Reject(req, TRUE), "continue")
  ELSE AfterPush([cn EXCEPT !.CDSWatch = TRUE], eds, pushCds(res))

\* case ClusterType
CaseCluster(cn, eds, req, res) ==
  IF cn.CDSWatch
  THEN Pass(cn, eds, Reject(req, TRUE), "continue")
  ELSE AfterPush([cn EXCEPT !.CDSWatch = TRUE], eds, pushCds(res))

\* case ListenerType
CaseListener(cn, eds, req, res) ==
  IF cn.LDSWatch
  THEN Pass(cn, eds, Reject(req, TRUE), "continue")
  ELSE AfterPush([cn EXCEPT !.LDSWatch = TRUE], eds, pushLds(res))

\* CaseRoute that compares the names, not the lengths.
CaseRouteByContent(cn, eds, req, res) ==
  LET routes == req.ResourceNames IN
  IF (routes = cn.Routes \/ Len(routes) = 0) /\ Len(cn.Routes) > 0
  THEN Pass(cn, eds, Reject(req, FALSE), "continue")
  ELSE AfterPush([cn EXCEPT !.Routes = routes], eds, pushRoute(res))

\* case RouteType
CaseRoute(cn, eds, req, res) ==
  LET routes == req.ResourceNames IN
  IF (Len(routes) = Len(cn.Routes) \/ Len(routes) = 0) /\ Len(cn.Routes) > 0
  THEN Pass(cn, eds, Reject(req, FALSE), "continue")
  ELSE AfterPush([cn EXCEPT !.Routes = routes], eds, pushRoute(res))

\* CaseEndpoint that takes no request for an ACK.
CaseEndpointNoAck(cn, eds, c, req, res) ==
  LET clusters == req.ResourceNames IN
  AfterPush([cn EXCEPT !.Clusters = clusters],
            addEdsCons(eds, clusters, cn.ConID, c), pushEds(res))

\* CaseEndpoint that forgets the EDS index.
CaseEndpointNoIndex(cn, eds, c, req, res) ==
  LET clusters == req.ResourceNames
      ack == Len(clusters) = Len(cn.Clusters) \/ Len(clusters) = 0
  IN IF ack /\ Len(cn.Clusters) > 0
     THEN Pass(cn, eds, Reject(req, TRUE), "continue")
     ELSE AfterPush([cn EXCEPT !.Clusters = clusters], eds, pushEds(res))

\* case EndpointType
CaseEndpoint(cn, eds, c, req, res) ==
  LET clusters == req.ResourceNames
      ack == Len(clusters) = Len(cn.Clusters) \/ Len(clusters) = 0
      p == pushEds(res)
  IN IF ack /\ Len(cn.Clusters) > 0
     THEN Pass(cn, eds, Reject(req, TRUE), "continue")
     ELSE AfterPush([cn EXCEPT !.Clusters = clusters],
                    addEdsCons(eds, clusters, cn.ConID, c),
                    [p EXCEPT !.log = Reject(req, ack).log \o @])

\* switch discReq.TypeUrl
Dispatch(cn, eds, c, req, res) ==
  IF req.TypeUrl = ClusterType THEN CaseCluster(cn, eds, req, res)
  ELSE IF req.TypeUrl = ListenerType THEN CaseListener(cn, eds, req, res)
  ELSE IF req.TypeUrl = RouteType THEN CaseRoute(cn, eds, req, res)
  ELSE IF req.TypeUrl = EndpointType THEN CaseEndpoint(cn, eds, c, req, res)
  ELSE Pass(cn, eds, NoPush, "break")

\* con.modelNode = &nt; the first request also names the connection
SetNode(cn, req, node, counter) ==
  [cn EXCEPT !.modelNode = node,
             !.ConID = IF @ = NoConID THEN connectionID(req.Node, counter) ELSE @]

\* HandleRequest without the test for an empty node id.
HandleRequestNoSkip(cn, eds, c, req, res, counter) ==
  IF ~ParseServiceNode(req.Node).ok
  THEN Pass(cn, eds, [log |-> <<>>, err |-> "parse error", wt |-> 0], "return")
  ELSE Dispatch(SetNode(cn, req, ParseServiceNode(req.Node).node, counter), eds, c, req, res)

\* One request, from the receive to the end of the switch.
HandleRequest(cn, eds, c, req, res, counter) ==
  IF req.Node = EmptyNodeId
  THEN Pass(cn, eds, NoPush, "continue")
  ELSE IF ~ParseServiceNode(req.Node).ok
  THEN Pass(cn, eds, [log |-> <<>>, err |-> "parse error", wt |-> 0], "return")
  ELSE Dispatch(SetNode(cn, req, ParseServiceNode(req.Node).node, counter), eds, c, req, res)

\* ------------------------------------------------------------ registry
\* adsClients[conID] = con
addCon(clients, conID, c) == MapPut(clients, conID, c)

\* adsSidecarIDConnectionsMap[con.modelNode.ID][conID] = con
addConSidecar(sidecars, conID, c, node) ==
  IF node # <<>>
  THEN {t \in sidecars : ~(t[1] = node[1].ID /\ t[2] = conID)} \cup {<<node[1].ID, conID, c>>}
  ELSE sidecars

\* removeCon that leaves adsClients as it is.
removeConNoDelete(clients, conID) == clients

\* delete(adsClients, conID)
removeCon(clients, conID) == MapDel(clients, conID)

\* removeConSidecar that drops the node's whole entry.
removeConSidecarAll(sidecars, conID, node) ==
  IF node # <<>>
  THEN {t \in sidecars : t[1] # node[1].ID}
  ELSE sidecars

\* delete(adsSidecarIDConnectionsMap[con.modelNode.ID], conID)
removeConSidecar(sidecars, conID, node) ==
  IF node # <<>>
  THEN {t \in sidecars : ~(t[1] = node[1].ID /\ t[2] = conID)}
  ELSE sidecars

\* removeCon's loop over con.Clusters
removeConEds(eds, cn, c) == removeEdsCons(eds, cn.Clusters, cn.ConID, c)

\* Whether the request, received on cn, reaches a push.
Pushes(cn, req) ==
  Sent(HandleRequest(cn, edsClusters, 0, req, "ok", 0).log) # <<>>

\* Whether the push-channel case reaches its push number i.
Reaches(cn, i) ==
  \/ i = 0
  \/ i = 1 /\ cn.CDSWatch
  \/ i = 2 /\ Len(cn.Routes) > 0
  \/ i = 3 /\ Len(cn.Clusters) > 0
  \/ i = 4 /\ cn.LDSWatch

\* A stream is accepted: the connection is created and the loop entered.
OpenStream(c) ==
  /\ pc[c] = "idle"
  /\ budget[c] > 0
  /\ \A d \in Conns : d < c => pc[d] # "idle"
  /\ pc' = [pc EXCEPT ![c] = "loop"]
  /\ con' = [con EXCEPT ![c] = newXdsConnection]
  /\ lastOp' = [NoOp EXCEPT !.kind = "open", !.c = c]
  /\ UNCHANGED <<ret, adsClients, adsSidecarIDConnectionsMap, edsClusters,
                 connectionNumber, tmpMap, now, budget, inputs, faults, nbroadcast, nticks,
                 task, step, build>>

\* The end of a pass r of stream c's loop: registration after the switch
\* (if !con.added), or the return, on which the deferred removeCon runs when
\* the connection was added. The deferred close of doneChannel runs next.
EndPass(c, r) ==
  LET register == r.flow = "break" /\ ~r.con.added
      returns == r.flow = "return"
      remove == returns /\ r.con.added
  IN /\ con' = [con EXCEPT ![c] = IF register THEN [r.con EXCEPT !.added = TRUE] ELSE r.con]
     /\ edsClusters' = IF remove THEN removeConEds(r.eds, r.con, c) ELSE r.eds
     /\ adsClients' = IF register THEN addCon(adsClients, r.con.ConID, c)
                      ELSE IF remove THEN removeCon(adsClients, r.con.ConID)
                      ELSE adsClients
     /\ adsSidecarIDConnectionsMap' =
          IF register
          THEN addConSidecar(adsSidecarIDConnectionsMap, r.con.ConID, c, r.con.modelNode)
          ELSE IF remove
          THEN removeConSidecar(adsSidecarIDConnectionsMap, r.con.ConID, r.con.modelNode)
          ELSE adsSidecarIDConnectionsMap
     /\ pc' = [pc EXCEPT ![c] = IF returns THEN "closing" ELSE "loop"]
     /\ ret' = [ret EXCEPT ![c] = IF returns THEN r.err ELSE @]

\* case discReq, ok = <-reqChannel with ok: one request, to the end of the pass
StreamRequest(c, req, res) ==
  /\ pc[c] = "loop"
  /\ budget[c] > 0
  /\ res = "ok" \/ Pushes(con[c], req)
  /\ budget' = [budget EXCEPT ![c] = @ - 1]
  /\ \E r \in {HandleRequest(con[c], edsClusters, c, req, res, connectionNumber)} :
        /\ EndPass(c, r)
        /\ connectionNumber' = IF r.con.ConID # con[c].ConID THEN connectionNumber + 1
                               ELSE connectionNumber
        /\ lastOp' = [kind |-> IF req.Node = EmptyNodeId THEN "skipped"
                                ELSE IF r.err = "parse error" THEN "malformed"
                                ELSE "request",
                       c |-> c,
                       req |-> [TypeUrl |-> req.TypeUrl, ResourceNames |-> req.ResourceNames],
                       log |-> r.log,
                       wt |-> r.wt,
                       again |-> /\ lastOp.kind = "request"
                                 /\ lastOp.c = c
                                 /\ lastOp.req = [TypeUrl |-> req.TypeUrl,
                                                  ResourceNames |-> req.ResourceNames]
                                 /\ r.err # "parse error"
                                 /\ req.Node # EmptyNodeId]
  /\ UNCHANGED <<tmpMap, now, inputs, faults, nbroadcast, nticks,
                 task, step, build>>

\* case discReq, ok = <-reqChannel with !ok: receiveThread closed the channel
\* (EOF and Canceled leave receiveError nil) and the loop returns receiveError
StreamClosed(c, e) ==
  /\ pc[c] = "loop"
  /\ EndPass(c, Pass(con[c], edsClusters,
                     [log |-> <<>>, err |-> IF e \in {"EOF", "Canceled"} THEN "nil" ELSE e, wt |-> 0],
                     "return"))
  /\ lastOp' = [NoOp EXCEPT !.kind = "closed", !.c = c]
  /\ UNCHANGED <<connectionNumber, tmpMap, now, budget, inputs, faults, nbroadcast, nticks,
                 task, step, build>>

\* defer close(con.doneChannel), the last deferred call to run
DeferredCloseDone(c) ==
  /\ pc[c] = "closing"
  /\ con' = [con EXCEPT ![c].doneChannel = "closed"]
  /\ pc' = [pc EXCEPT ![c] = "closed"]
  /\ lastOp' = [NoOp EXCEPT !.kind = "closeDone", !.c = c]
  /\ UNCHANGED <<ret, adsClients, adsSidecarIDConnectionsMap, edsClusters,
                 connectionNumber, tmpMap, now, budget, inputs, faults, nbroadcast, nticks,
                 task, step, build>>

\* CasePushChannel with the listeners pushed before the endpoints.
CasePushChannelLdsFirst(cn, eds, failAt, kind) ==
  LET res(i) == IF failAt = i THEN kind ELSE "ok"
      cds == IF cn.CDSWatch THEN pushCds(res(1)) ELSE NoPush
      rds == IF cds.err = "nil" /\ Len(cn.Routes) > 0 THEN pushRoute(res(2)) ELSE NoPush
      e2 == IF cds.err # "nil" THEN cds.err ELSE rds.err
      lds == IF e2 = "nil" /\ cn.LDSWatch THEN pushLds(res(4)) ELSE NoPush
      e3 == IF e2 # "nil" THEN e2 ELSE lds.err
      edp == IF e3 = "nil" /\ Len(cn.Clusters) > 0 THEN pushEds(res(3)) ELSE NoPush
      e4 == IF e3 # "nil" THEN e3 ELSE edp.err
  IN Pass(cn, eds, [log |-> cds.log \o rds.log \o lds.log \o edp.log, err |-> e4,
                   wt |-> cds.wt + rds.wt + lds.wt + edp.wt],
          IF e4 # "nil" THEN "return" ELSE "continue")

\* CasePushChannel that goes on to the next type after a failed push.
CasePushChannelNoReturn(cn, eds, failAt, kind) ==
  LET res(i) == IF failAt = i THEN kind ELSE "ok"
      cds == IF cn.CDSWatch THEN pushCds(res(1)) ELSE NoPush
      rds == IF Len(cn.Routes) > 0 THEN pushRoute(res(2)) ELSE NoPush
      edp == IF Len(cn.Clusters) > 0 THEN pushEds(res(3)) ELSE NoPush
      lds == IF cn.LDSWatch THEN pushLds(res(4)) ELSE NoPush
      errs == SelectSeq(<<cds.err, rds.err, edp.err, lds.err>>, LAMBDA e : e # "nil")
      err == IF errs = <<>> THEN "nil" ELSE errs[1]
  IN Pass(cn, eds, [log |-> cds.log \o rds.log \o edp.log \o lds.log, err |-> err,
                   wt |-> cds.wt + rds.wt + edp.wt + lds.wt],
          IF err # "nil" THEN "return" ELSE "continue")

\* case <-con.pushChannel: each watched type in turn, up to the first error.
\* failAt names the push that fails (1 CDS, 2 RDS, 3 EDS, 4 LDS; 0 none).
CasePushChannel(cn, eds, failAt, kind) ==
  LET res(i) == IF failAt = i THEN kind ELSE "ok"
      cds == IF cn.CDSWatch THEN pushCds(res(1)) ELSE NoPush
      rds == IF cds.err = "nil" /\ Len(cn.Routes) > 0 THEN pushRoute(res(2)) ELSE NoPush
      e2 == IF cds.err # "nil" THEN cds.err ELSE rds.err
      edp == IF e2 = "nil" /\ Len(cn.Clusters) > 0 THEN pushEds(res(3)) ELSE NoPush
      e3 == IF e2 # "nil" THEN e2 ELSE edp.err
      lds == IF e3 = "nil" /\ cn.LDSWatch THEN pushLds(res(4)) ELSE NoPush
      e4 == IF e3 # "nil" THEN e3 ELSE lds.err
  IN Pass(cn, eds, [log |-> cds.log \o rds.log \o edp.log \o lds.log, err |-> e4,
                   wt |-> cds.wt + rds.wt + edp.wt + lds.wt],
          IF e4 # "nil" THEN "return" ELSE "continue")

StreamPush(c, failAt, kind) ==
  /\ pc[c] = "loop"
  /\ con[c].pushChannel = 1
  /\ Reaches(con[c], failAt)
  /\ \E r \in {CasePushChannel([con[c] EXCEPT !.pushChannel = 0], edsClusters, failAt, kind)} :
        /\ EndPass(c, r)
        /\ lastOp' = [NoOp EXCEPT !.kind = "push", !.c = c, !.log = r.log, !.wt = r.wt]
  /\ UNCHANGED <<connectionNumber, tmpMap, now, budget, inputs, faults, nbroadcast, nticks,
                 task, step, build>>

\* ------------------------------------------------------------ broadcast
LongFailure == 10

\* adsPushAll up to the loop over the clients: tmpMap is a copy of adsClients
AdsPushAllStart ==
  /\ tmpMap = {}
  /\ nbroadcast > 0
  /\ nbroadcast' = nbroadcast - 1
  /\ tmpMap' = adsClients
  /\ lastOp' = [NoOp EXCEPT !.kind = "pushAll"]
  /\ UNCHANGED <<con, pc, ret, adsClients, adsSidecarIDConnectionsMap, edsClusters,
                 connectionNumber, now, budget, inputs, faults, nticks,
                 task, step, build>>

\* select: case client.pushChannel <- &XdsEvent{}
SelectPush(cn, t) == [cn EXCEPT !.pushChannel = 1, !.LastPush = t, !.LastPushFailure = timeZero]

\* The timer case that notes the time of every failure.
SelectTimeoutAlways(cn, t) == [cn EXCEPT !.LastPushFailure = t]

\* select: case <-to
SelectTimeout(cn, t) ==
  IF cn.LastPushFailure = timeZero THEN [cn EXCEPT !.LastPushFailure = t] ELSE cn

\* pushErrors counted by the timeout case: "short", "long" or none
PushError(cn, t) ==
  IF cn.LastPushFailure = timeZero THEN "short"
  ELSE IF t - cn.LastPushFailure > LongFailure THEN "long"
  ELSE ""

AdsPushAllSend(p) ==
  /\ p \in tmpMap
  /\ con[p[2]].pushChannel = 0
  /\ con' = [con EXCEPT ![p[2]] = SelectPush(@, now)]
  /\ tmpMap' = tmpMap \ {p}
  /\ lastOp' = [NoOp EXCEPT !.kind = "signal", !.c = p[2]]
  /\ UNCHANGED <<pc, ret, adsClients, adsSidecarIDConnectionsMap, edsClusters,
                 connectionNumber, now, budget, inputs, faults, nbroadcast, nticks,
                 task, step, build>>

AdsPushAllDone(p) ==
  /\ p \in tmpMap
  /\ con[p[2]].doneChannel = "closed"
  /\ tmpMap' = tmpMap \ {p}
  /\ lastOp' = [NoOp EXCEPT !.kind = "skip", !.c = p[2]]
  /\ UNCHANGED <<con, pc, ret, adsClients, adsSidecarIDConnectionsMap, edsClusters,
                 connectionNumber, now, budget, inputs, faults, nbroadcast, nticks,
                 task, step, build>>

\* A timeout that ends the broadcast instead of going on to the next client.
AdsPushAllTimeoutReturns(p) ==
  /\ p \in tmpMap
  /\ con[p[2]].pushChannel = 1
  /\ con[p[2]].doneChannel = "open"
  /\ now' = now + PushTimeout
  /\ con' = [con EXCEPT ![p[2]] = SelectTimeout(@, now')]
  /\ tmpMap' = {}
  /\ lastOp' = [NoOp EXCEPT !.kind = "timeout", !.c = p[2],
                             !.log = <<<<"pushTimeouts", "1">>,
                                       <<"pushErrors", PushError(con[p[2]], now')>>>>]
  /\ UNCHANGED <<pc, ret, adsClients, adsSidecarIDConnectionsMap, edsClusters,
                 connectionNumber, budget, inputs, faults, nbroadcast, nticks,
                 task, step, build>>

\* The select without its timer case.
AdsPushAllNoTimer(p) ==
  /\ FALSE
  /\ p \in tmpMap
  /\ UNCHANGED vars

\* the timer fires only while neither channel is ready
AdsPushAllTimeout(p) ==
  /\ p \in tmpMap
  /\ con[p[2]].pushChannel = 1
  /\ con[p[2]].doneChannel = "open"
  /\ now' = now + PushTimeout
  /\ con' = [con EXCEPT ![p[2]] = SelectTimeout(@, now')]
  /\ tmpMap' = tmpMap \ {p}
  /\ lastOp' = [NoOp EXCEPT !.kind = "timeout", !.c = p[2],
                             !.log = <<<<"pushTimeouts", "1">>,
                                       <<"pushErrors", PushError(con[p[2]], now')>>>>]
  /\ UNCHANGED <<pc, ret, adsClients, adsSidecarIDConnectionsMap, edsClusters,
                 connectionNumber, budget, inputs, faults, nbroadcast, nticks,
                 task, step, build>>

\* Time passes. The clock is read only against a LastPushFailure.
TickSteps == {PushTimeout}
Tick(d) ==
  /\ nticks < MaxTicks
  /\ \E c \in Conns : con[c].LastPushFailure # timeZero
  /\ nticks' = nticks + 1
  /\ now' = now + d
  /\ lastOp' = [NoOp EXCEPT !.kind = "tick"]
  /\ UNCHANGED <<con, pc, ret, adsClients, adsSidecarIDConnectionsMap, edsClusters,
                 connectionNumber, tmpMap, budget, inputs, faults, nbroadcast,
                 task, step, build>>

RecvErrors == {"EOF", "Canceled", "Unavailable"}

Next ==
  \/ \E c \in Conns : OpenStream(c)
  \/ \E c \in Conns, req \in inputs, res \in {"ok"} \cup faults : StreamRequest(c, req, res)
  \/ \E c \in Conns, e \in RecvErrors : StreamClosed(c, e)
  \/ \E c \in Conns : StreamPush(c, 0, "ok")
  \/ \E c \in Conns, failAt \in 1..4, kind \in faults : StreamPush(c, failAt, kind)
  \/ \E c \in Conns : DeferredCloseDone(c)
  \/ AdsPushAllStart
  \/ \E p \in tmpMap : AdsPushAllSend(p)
  \/ \E p \in tmpMap : AdsPushAllDone(p)
  \/ \E p \in tmpMap : AdsPushAllTimeout(p)
  \/ \E d \in TickSteps : Tick(d)

\* The requests that carry one of the node ids. A request whose node id is
\* empty or does not parse is dropped before anything else of it is read, so
\* one request stands for each of the two.
From(ids) ==
  {req \in DiscoveryRequests :
     /\ req.Node \in ids
     /\ req.Node \in {EmptyNodeId, MalformedNodeId} =>
          (req.TypeUrl = ClusterType /\ ~req.ErrorDetail)}

\* Two streams of the same proxy, each with a few EDS requests.
SharedInputs ==
  {req \in From({NodeA}) :
     /\ req.TypeUrl = EndpointType
     /\ req.ResourceNames \in {<<>>, <<"c1">>, <<"c1", "c2">>}
     /\ ~req.ErrorDetail}
Init == InitWith([c \in Conns |-> MaxShared], SharedInputs, {"senderr"})
Spec == Init /\ [][Next]_vars

\* One stream with a longer run of requests.
InitOne == InitWith([c \in Conns |-> IF c = 1 THEN MaxRequests ELSE 0],
                    From(NodeIds \ {NodeB}), Failures)
SpecOne == InitOne /\ [][Next]_vars

\* One stream whose requests name different nodes.
InitNodes == InitWith([c \in Conns |-> IF c = 1 THEN MaxNodeRequests ELSE 0],
                      From(NodeIds), Failures)
SpecNodes == InitNodes /\ [][Next]_vars

\* Streams that send one CDS request and then leave their push signals unread,
\* through a few broadcasts.
StuckInputs ==
  {req \in From({NodeA}) : req.TypeUrl = ClusterType /\ ~req.ErrorDetail}
InitStuck == InitRun([c \in Conns |-> 1], StuckInputs, {"senderr"}, MaxStuckBroadcasts)
SpecStuck == InitStuck /\ [][Next]_vars

\* adsPushAll's loop over tmpMap runs on: each select ends by one of its cases.
AdsPushAllLoop ==
  \E p \in tmpMap : AdsPushAllSend(p) \/ AdsPushAllDone(p) \/ AdsPushAllTimeout(p)
SpecLive == InitStuck /\ [][Next]_vars /\ WF_vars(AdsPushAllLoop)
\* ================================================================ claims
PushOrder == <<ClusterType, RouteType, EndpointType, ListenerType>>

Watched(cn, t) ==
  \/ t = ClusterType /\ cn.CDSWatch
  \/ t = RouteType /\ Len(cn.Routes) > 0
  \/ t = EndpointType /\ Len(cn.Clusters) > 0
  \/ t = ListenerType /\ cn.LDSWatch

AllWatched(cn) == \A i \in 1..Len(PushOrder) : Watched(cn, PushOrder[i])

IsPush(e) == e[2] \in PushResults
\* The pushes of a pass, delivered or not, and the types they were for.
Pushes_(log) == SelectSeq(log, IsPush)
Types(log) == [i \in 1..Len(log) |-> log[i][1]]
Failed(log) == \E i \in 1..Len(log) : log[i][2] \in Failures

IsPrefix(s, t) == Len(s) <= Len(t) /\ \A i \in 1..Len(s) : s[i] = t[i]

Returned(c) == pc[c] \in {"closing", "closed"}

\* C1: when a connection that watches all four types (CDS and LDS requested,
\* non-empty Routes and Clusters) consumes a push signal, the responses it
\* sends are exactly CDS, RDS, EDS, LDS, one each, in that order; the only
\* way the round is cut short is a failed push, which ends the stream.
C1_RoundTrip ==
  \A c \in Conns :
    (lastOp.kind = "push" /\ lastOp.c = c /\ AllWatched(con[c])) =>
      \/ /\ Sent(lastOp.log) = PushOrder
         /\ lastOp.log = [i \in 1..4 |-> <<PushOrder[i], "ok">>]
         /\ pc[c] = "loop"
      \/ /\ Failed(lastOp.log)
         /\ IsPrefix(Sent(lastOp.log), PushOrder)
         /\ Len(lastOp.log) = Len(Sent(lastOp.log)) + 1
         /\ Returned(c)
         /\ ret[c] # "nil"

C1_Witness ==
  \E c \in Conns :
    /\ lastOp.kind = "push" /\ lastOp.c = c
    /\ AllWatched(con[c])
    /\ Sent(lastOp.log) = PushOrder
    /\ pc[c] = "loop"

\* C2: a pass that consumes a push signal pushes only watched types, each at
\* most once, in the order CDS, RDS, EDS, LDS; it stops at the first failed
\* push, which ends the stream, and otherwise pushes every watched type.
C2_PushWatchedInOrder ==
  \A c \in Conns :
    (lastOp.kind = "push" /\ lastOp.c = c) =>
      LET watched == SelectSeq(PushOrder, LAMBDA t : Watched(con[c], t))
          log == lastOp.log
      IN /\ IsPrefix(Types(log), watched)
         /\ \A i \in 1..Len(log) : i < Len(log) => log[i][2] = "ok"
         /\ Failed(log) <=> (Returned(c) /\ ret[c] # "nil")
         /\ ~Failed(log) => (Types(log) = watched /\ pc[c] = "loop")

C2_Witness ==
  \E c \in Conns :
    /\ lastOp.kind = "push" /\ lastOp.c = c
    /\ con[c].CDSWatch /\ ~con[c].LDSWatch /\ con[c].Routes = <<>> /\ con[c].Clusters # <<>>
    /\ lastOp.log = <<<<ClusterType, "ok">>, <<EndpointType, "senderr">>>>
    /\ Returned(c)

\* The watch state of a connection.
WatchState(cn) == <<cn.CDSWatch, cn.LDSWatch, cn.Routes, cn.Clusters>>

\* The step dispatches a request of type t on stream c (its node id parsed).
RequestStep(c, t) ==
  lastOp'.kind = "request" /\ lastOp'.c = c /\ lastOp'.req.TypeUrl = t

\* The pushes the step made.
StepPushes == Types(Pushes_(lastOp'.log))

\* C3: for Cluster and for Listener, a dispatched request of the type arriving
\* while the watch flag is unset sets the flag and makes exactly one push of
\* that type, changing nothing else of the watch state; one arriving while the
\* flag is set, with or without error_detail, makes no push and leaves the
\* watch state unchanged; and nothing else ever changes the flag.
C3_FirstRequestWatches ==
  [][\A c \in Conns :
       /\ RequestStep(c, ClusterType) =>
            IF con[c].CDSWatch
            THEN StepPushes = <<>> /\ WatchState(con'[c]) = WatchState(con[c])
            ELSE /\ StepPushes = <<ClusterType>>
                 /\ WatchState(con'[c]) = WatchState([con[c] EXCEPT !.CDSWatch = TRUE])
       /\ RequestStep(c, ListenerType) =>
            IF con[c].LDSWatch
            THEN StepPushes = <<>> /\ WatchState(con'[c]) = WatchState(con[c])
            ELSE /\ StepPushes = <<ListenerType>>
                 /\ WatchState(con'[c]) = WatchState([con[c] EXCEPT !.LDSWatch = TRUE])
       /\ con'[c].CDSWatch # con[c].CDSWatch => RequestStep(c, ClusterType)
       /\ con'[c].LDSWatch # con[c].LDSWatch => RequestStep(c, ListenerType)
    ]_vars

\* a later Cluster request, carrying error_detail, has been handled as an ACK
C3_Witness ==
  \E c \in Conns :
    /\ lastOp.kind = "request" /\ lastOp.c = c
    /\ lastOp.log = <<<<ClusterType, "reject">>>>
    /\ con[c].CDSWatch
    /\ pc[c] = "loop"

\* C4 as stated: an RDS request whose resource_names has the length of the
\* stored Routes, both empty included, sends nothing and leaves Routes alone.
C4_SameLengthIsAck ==
  [][\A c \in Conns :
       (RequestStep(c, RouteType)
          /\ Len(lastOp'.req.ResourceNames) = Len(con[c].Routes)) =>
         (StepPushes = <<>> /\ con'[c].Routes = con[c].Routes)
    ]_vars

\* C4 amended: an RDS request whose resource_names has the length of the stored
\* Routes leaves Routes unchanged; it is an ACK (nothing pushed) when that
\* length is not zero, and when both are empty one RDS push is made.
C4_SameLengthIsAckUnlessEmpty ==
  [][\A c \in Conns :
       (RequestStep(c, RouteType)
          /\ Len(lastOp'.req.ResourceNames) = Len(con[c].Routes)) =>
         /\ con'[c].Routes = con[c].Routes
         /\ IF Len(con[c].Routes) > 0
            THEN StepPushes = <<>>
            ELSE StepPushes = <<RouteType>>
    ]_vars

\* an RDS request naming another route, of the stored length, was taken as an ACK
C4_Witness ==
  \E c \in Conns :
    /\ lastOp.kind = "request" /\ lastOp.c = c /\ lastOp.req.TypeUrl = RouteType
    /\ Len(lastOp.req.ResourceNames) = Len(con[c].Routes)
    /\ lastOp.req.ResourceNames # con[c].Routes
    /\ Pushes_(lastOp.log) = <<>>

OneChanged(old, new) ==
  /\ Len(old) = Len(new)
  /\ Cardinality({i \in 1..Len(old) : old[i] # new[i]}) = 1

\* C6: once Clusters is established, an EDS request that changes one element
\* of resource_names makes exactly one EDS push and Clusters becomes the new
\* list.
C6_ChangedElementPushes ==
  [][\A c \in Conns :
       (/\ RequestStep(c, EndpointType)
        /\ con[c].Clusters # <<>>
        /\ OneChanged(con[c].Clusters, lastOp'.req.ResourceNames)) =>
         /\ StepPushes = <<EndpointType>>
         /\ con'[c].Clusters = lastOp'.req.ResourceNames
    ]_vars

InIndex(eds, n, c) == \E p \in eds[n] : p[2] = c

\* C7: after an EDS request that changes Clusters from Old to New (the stream
\* staying open), the connection is in the index entry of every cluster of New
\* and in none of a cluster of Old that is not in New.
C7_IndexFollowsClusters ==
  [][\A c \in Conns :
       (/\ RequestStep(c, EndpointType)
        /\ con'[c].Clusters # con[c].Clusters
        /\ pc'[c] = "loop") =>
         /\ \A n \in Range(con'[c].Clusters) : InIndex(edsClusters', n, c)
         /\ \A n \in Range(con[c].Clusters) \ Range(con'[c].Clusters) :
              ~InIndex(edsClusters', n, c)
    ]_vars

Registered == {p[2] : p \in adsClients}

\* C8: every connection in adsClients has a node, is filed under its own
\* ConID, which no other connection of the registry or other added, running
\* connection has, and is in the EDS index entry of each of its Clusters.
C8_RegistryInvariant ==
  \A p \in adsClients :
    LET c == p[2] IN
    /\ con[c].modelNode # <<>>
    /\ con[c].ConID = p[1]
    /\ con[c].ConID # NoConID
    /\ \A d \in Conns \ {c} :
         (d \in Registered \/ (con[d].added /\ pc[d] = "loop")) => con[d].ConID # con[c].ConID
    /\ \A n \in Range(con[c].Clusters) : <<con[c].ConID, c>> \in edsClusters[n]

\* two registered connections watch a cluster in common
C8_Witness ==
  \E c, d \in Registered :
    /\ c # d
    /\ Range(con[c].Clusters) \cap Range(con[d].Clusters) # {}
    /\ con[c].modelNode = con[d].modelNode

\* C9: a connection whose stream has terminated is in no entry of the EDS index.
C9_NoIndexEntryAfterClose ==
  \A c \in Conns :
    pc[c] = "closed" => \A n \in ClusterNames : ~InIndex(edsClusters, n, c)

\* C10: once the loop of an added connection has returned, the connection is
\* in neither adsClients nor adsSidecarIDConnectionsMap.
C10_RemovedFromBothIndexes ==
  \A c \in Conns :
    (Returned(c) /\ con[c].added) =>
      /\ c \notin Registered
      /\ \A t \in adsSidecarIDConnectionsMap : t[3] # c

\* C11: once a connection's node is set, no later request on the stream
\* changes it, whatever node id the request carries.
C11_NodeNeverChanges ==
  [][\A c \in Conns :
       (pc[c] = "loop" /\ con[c].modelNode # <<>>) =>
         con'[c].modelNode = con[c].modelNode
    ]_vars

EntriesOf(d) ==
  <<{p \in adsClients : p[2] = d}, {t \in adsSidecarIDConnectionsMap : t[3] = d}>>

\* C13: every registered connection is filed in the node-id index under its
\* node's ID and its own ConID, so connections of one node coexist there; a
\* broadcast takes every registered connection into its snapshot and a signal
\* fills the connection's push channel; and when a stream returns, its own
\* entries leave both indexes while every other connection's entries in
\* adsClients and in the node-id index stay as they were.
C13_SameNodeCoexist ==
  [][/\ \A p \in adsClients' :
          <<con'[p[2]].modelNode[1].ID, p[1], p[2]>> \in adsSidecarIDConnectionsMap'
     /\ lastOp'.kind = "pushAll" => tmpMap' = adsClients'
     /\ lastOp'.kind = "signal" => con'[lastOp'.c].pushChannel = 1
     /\ \A c \in Conns :
          (pc[c] = "loop" /\ pc'[c] = "closing") =>
            /\ EntriesOf(c)' = <<{}, {}>>
            /\ \A d \in Conns \ {c} : EntriesOf(d)' = EntriesOf(d)
    ]_vars

\* two connections of one node were registered together and signalled by the
\* same broadcast; one has now met EOF and the other is still in both indexes
C13_Witness ==
  \E c, d \in Conns :
    /\ c # d
    /\ lastOp.kind = "closed" /\ lastOp.c = c
    /\ con[c].added /\ con[c].pushChannel = 1
    /\ nbroadcast = MaxBroadcasts - 1 /\ tmpMap = {}
    /\ d \in Registered /\ con[d].pushChannel = 1
    /\ con[c].modelNode = con[d].modelNode
    /\ <<con[d].modelNode[1].ID, con[d].ConID, d>> \in adsSidecarIDConnectionsMap

\* C14: a request with an empty node id changes nothing of the connection,
\* the indexes or the connection counter, pushes nothing and leaves the stream
\* in its loop; a request with a non-empty node id that does not parse pushes
\* nothing and makes the loop return an error, the connection leaving
\* adsClients.
C14_EmptySkippedMalformedFatal ==
  [][\A c \in Conns, req \in {r \in inputs : r.Node \in {EmptyNodeId, MalformedNodeId}} :
       (pc[c] = "loop" /\ budget[c] > 0 /\ StreamRequest(c, req, "ok")) =>
         /\ req.Node = EmptyNodeId =>
              /\ con'[c] = con[c]
              /\ pc'[c] = "loop"
              /\ lastOp'.log = <<>>
              /\ UNCHANGED <<adsClients, adsSidecarIDConnectionsMap, edsClusters,
                             connectionNumber, ret>>
         /\ req.Node = MalformedNodeId =>
              /\ pc'[c] = "closing"
              /\ ret'[c] \notin {"nil", "none"}
              /\ lastOp'.log = <<>>
              /\ c \notin Registered'
              /\ WatchState(con'[c]) = WatchState(con[c])
    ]_vars

\* a stream whose first request had an empty node id and was skipped has
\* returned on its second request, whose node id did not parse
C14_Witness ==
  \E c \in Conns :
    /\ lastOp.kind = "malformed" /\ lastOp.c = c
    /\ budget[c] = MaxRequests - 2
    /\ con[c].modelNode = <<>>
    /\ pc[c] = "closing" /\ ret[c] = "parse error"

\* C15: a request whose type_url is none of the four known ones pushes
\* nothing and leaves the connection's watch state, adsClients, the node-id
\* index and the EDS index unchanged.
C15_UnknownTypeIgnored ==
  [][\A c \in Conns :
       RequestStep(c, OtherType) =>
         /\ StepPushes = <<>>
         /\ WatchState(con'[c]) = WatchState(con[c])
         /\ UNCHANGED <<adsClients, adsSidecarIDConnectionsMap, edsClusters>>
    ]_vars

\* C16: a request that carries error_detail pushes nothing and leaves the
\* connection's watch state (CDSWatch, LDSWatch, Routes, Clusters) unchanged.
C16_NackTakesNoAction ==
  [][\A c \in Conns, req \in {r \in inputs : r.ErrorDetail}, res \in {"ok"} \cup faults :
       (pc[c] = "loop" /\ budget[c] > 0 /\ StreamRequest(c, req, res)) =>
         /\ StepPushes = <<>>
         /\ WatchState(con'[c]) = WatchState(con[c])
    ]_vars

\* C17: when the registry adapter fails while a push is generated, only that
\* push is abandoned: the loop does not return and a registered connection
\* stays in adsClients, to be signalled by the next broadcast. Stated for the
\* route push, generated by pushRoute, on a request or on a push signal.
C17_GeneratorErrorKeepsStream ==
  \A c \in Conns :
    (/\ lastOp.kind \in {"request", "push"} /\ lastOp.c = c
     /\ \E i \in 1..Len(lastOp.log) : lastOp.log[i] = <<RouteType, "conferr">>) =>
      /\ pc[c] = "loop"
      /\ con[c].added => c \in Registered

TimedOut(log) == {i \in 1..Len(log) : log[i][2] = "timeout"}

\* C18: a pass of the loop in which a Send does not complete within SendTimeout
\* counts writeTimeout exactly once, makes no push after that one, and returns
\* "timeout sending", so that the deferred calls run and the connection is not
\* in adsClients; and a stream that has returned takes no further request or
\* push signal, so no later send is started on its connection.
C18_SendTimeoutIsFatal ==
  [][\A c \in Conns :
       /\ (/\ lastOp'.kind \in {"request", "push"} /\ lastOp'.c = c
           /\ pc[c] = "loop"
           /\ TimedOut(lastOp'.log) # {}) =>
            /\ TimedOut(lastOp'.log) = {Len(lastOp'.log)}
            /\ lastOp'.wt = 1
            /\ pc'[c] = "closing"
            /\ ret'[c] = "timeout sending"
            /\ c \notin Registered'
       /\ Returned(c) =>
            /\ Returned(c)'
            /\ budget'[c] = budget[c]
            /\ con'[c].pushChannel >= con[c].pushChannel
            /\ ret'[c] = ret[c]
       /\ lastOp'.wt = Cardinality(TimedOut(lastOp'.log))
    ]_vars

\* a registered connection that watches routes and LDS took a push signal,
\* timed out sending RDS from pushRoute, and returned without sending LDS
C18_Witness ==
  \E c \in Conns :
    /\ lastOp.kind = "push" /\ lastOp.c = c
    /\ lastOp.log = <<<<RouteType, "timeout">>>>
    /\ lastOp.wt = 1
    /\ con[c].LDSWatch /\ con[c].added
    /\ pc[c] = "closing" /\ ret[c] = "timeout sending"
    /\ c \notin Registered

\* C19: every broadcast ends: each step of its loop takes one connection out
\* of the snapshot by exactly one of the three cases of the select (signal,
\* done channel closed, timer), and once a broadcast has taken its snapshot
\* the snapshot is eventually used up, whether or not the streams read their
\* push channels.
C19_BroadcastTerminates ==
  /\ [][tmpMap' # tmpMap =>
          \/ tmpMap = {} /\ lastOp'.kind = "pushAll"
          \/ \E p \in tmpMap :
               /\ tmpMap' = tmpMap \ {p}
               /\ lastOp'.kind \in {"signal", "skip", "timeout"}
               /\ lastOp'.c = p[2]
               /\ lastOp'.kind = "signal" => con[p[2]].pushChannel = 0
               /\ lastOp'.kind = "skip" => con[p[2]].doneChannel = "closed"
               /\ lastOp'.kind = "timeout" =>
                    (con[p[2]].pushChannel = 1 /\ con[p[2]].doneChannel = "open")
      ]_vars
  /\ (tmpMap # {}) ~> (tmpMap = {})

\* in the second broadcast a connection that left its first signal unread has
\* timed out, and the other connection of the snapshot was signalled after it
C19_Witness ==
  \E c, d \in Conns :
    /\ c # d
    /\ nbroadcast = MaxStuckBroadcasts - 2
    /\ lastOp.kind = "signal" /\ lastOp.c = d
    /\ con[c].pushChannel = 1 /\ pc[c] = "loop"
    /\ con[c].LastPushFailure # timeZero
    /\ con[d].LastPush = con[c].LastPushFailure
    /\ tmpMap = {}

TimeoutStep(c) == lastOp'.kind = "timeout" /\ lastOp'.c = c /\ tmpMap' # tmpMap
SignalStep(c) == lastOp'.kind = "signal" /\ lastOp'.c = c /\ tmpMap' # tmpMap

\* C20: every timeout of the push-channel send counts pushTimeouts once; it
\* counts the short push error and sets LastPushFailure (to a non-zero time)
\* exactly when LastPushFailure was zero, and otherwise counts no short error
\* and leaves LastPushFailure alone; a successful send sets LastPush to the
\* time of the send and LastPushFailure to zero; nothing else changes either
\* field. So a run of timeouts without a send between counts short once.
C20_ShortErrorOncePerRun ==
  [][\A c \in Conns :
       /\ TimeoutStep(c) =>
            /\ lastOp'.log[1] = <<"pushTimeouts", "1">>
            /\ Len(lastOp'.log) = 2 /\ lastOp'.log[2][1] = "pushErrors"
            /\ con'[c].LastPush = con[c].LastPush
            /\ IF con[c].LastPushFailure = timeZero
               THEN /\ lastOp'.log[2][2] = "short"
                    /\ con'[c].LastPushFailure = now'
                    /\ now' # timeZero
               ELSE /\ lastOp'.log[2][2] # "short"
                    /\ con'[c].LastPushFailure = con[c].LastPushFailure
       /\ SignalStep(c) =>
            /\ con'[c].LastPush = now'
            /\ con'[c].LastPushFailure = timeZero
       /\ (pc[c] # "idle" /\ ~TimeoutStep(c) /\ ~SignalStep(c)) =>
            /\ con'[c].LastPush = con[c].LastPush
            /\ con'[c].LastPushFailure = con[c].LastPushFailure
    ]_vars

\* the push-channel send of a connection has timed out a second time in a row
C20_Witness ==
  \E c \in Conns :
    /\ lastOp.kind = "timeout" /\ lastOp.c = c
    /\ lastOp.log[2][2] # "short"
    /\ con[c].LastPushFailure # timeZero
    /\ con[c].LastPushFailure < now
    /\ nbroadcast = 0

\* C21: on a timeout of the push-channel send for a connection whose
\* LastPushFailure is not zero, the long push error is counted exactly when
\* LongFailure seconds or more have passed since LastPushFailure.
C21_LongErrorFromTenSeconds ==
  [][\A c \in Conns :
       (TimeoutStep(c) /\ con[c].LastPushFailure # timeZero) =>
         (lastOp'.log[2] = <<"pushErrors", "long">>
            <=> now' - con[c].LastPushFailure >= LongFailure)
    ]_vars

\* the step of the running broadcast that takes connection c out of tmpMap
BroadcastStep(c) ==
  /\ lastOp'.c = c /\ lastOp'.kind \in {"signal", "skip", "timeout"}
  /\ tmpMap' # tmpMap

\* a stream that has made its CDS request and whose client reads nothing more:
\* it is registered, its loop has not returned and has sent no later push
StuckAfterCds(c) ==
  /\ con[c].CDSWatch /\ con[c].added /\ pc[c] = "loop"
  /\ budget[c] = 0

\* C22: a connection that made a CDS request and then stopped reading records
\* a short push error in the first of two back-to-back broadcasts and no long
\* push error in the second.
C22_ShortAfterFirstBroadcast ==
  [][\A c \in Conns :
       (BroadcastStep(c) /\ StuckAfterCds(c) /\ nticks' = 0) =>
         /\ nbroadcast = MaxStuckBroadcasts - 1 =>
              /\ lastOp'.kind = "timeout"
              /\ lastOp'.log[2] = <<"pushErrors", "short">>
         /\ nbroadcast = MaxStuckBroadcasts - 2 =>
              ~(/\ lastOp'.kind = "timeout"
                /\ lastOp'.log[2] = <<"pushErrors", "long">>)
    ]_vars

\* C24: a broadcast that comes to a connection whose doneChannel is closed
\* skips it: it puts no signal on its pushChannel and leaves its LastPush and
\* LastPushFailure as they were.
C24_ClosedConnectionSkipped ==
  [][\A c \in Conns :
       (BroadcastStep(c) /\ con[c].doneChannel = "closed") =>
         /\ lastOp'.kind = "skip"
         /\ con'[c].pushChannel = con[c].pushChannel
         /\ con'[c].LastPush = con[c].LastPush
         /\ con'[c].LastPushFailure = con[c].LastPushFailure
    ]_vars

\* ------------------------------------------------------------ fan-out runs
\* One client that stops reading after its first request, next to clients that
\* go on reading. The stuck client's responses after the first are not taken
\* from the transport, so a push to it ends by SendTimeout; a reading client's
\* Send calls complete, it does not close its stream, and its loop takes a
\* push signal well within PushTimeout, so the timer of the broadcast's select
\* does not fire for it.
StuckClients == {c \in Conns : c = NumConns - 1}
HealthyClients == Conns \ StuckClients

FanOutInputs ==
  {req \in From({NodeA}) :
     /\ req.TypeUrl \in Range(<<ClusterType, RouteType, EndpointType, ListenerType>>)
     /\ req.TypeUrl = RouteType => req.ResourceNames = <<"r1">>
     /\ req.TypeUrl = EndpointType => req.ResourceNames = <<"c1">>
     /\ ~req.ErrorDetail}
InitFanOut ==
  InitRun([c \in Conns |-> IF c \in StuckClients THEN 1 ELSE MaxRequests],
          FanOutInputs, {"timeout"}, MaxBroadcasts)

NextFanOut ==
  \/ \E c \in Conns : OpenStream(c)
  \/ \E c \in Conns, req \in inputs : StreamRequest(c, req, "ok")
  \/ \E c \in HealthyClients : StreamPush(c, 0, "ok")
  \/ \E c \in StuckClients, kind \in faults : StreamPush(c, 1, kind)
  \/ \E c \in Conns : DeferredCloseDone(c)
  \/ AdsPushAllStart
  \/ \E p \in tmpMap : AdsPushAllSend(p)
  \/ \E p \in tmpMap : AdsPushAllDone(p)
  \/ \E p \in tmpMap : p[2] \in StuckClients /\ AdsPushAllTimeout(p)
  \/ \E d \in TickSteps : Tick(d)

SpecFanOut ==
  /\ InitFanOut /\ [][NextFanOut]_vars
  /\ WF_vars(\E p \in tmpMap : \/ AdsPushAllSend(p) \/ AdsPushAllDone(p)
                              \/ (p[2] \in StuckClients /\ AdsPushAllTimeout(p)))
  /\ \A c \in HealthyClients : WF_vars(StreamPush(c, 0, "ok"))

FullRound == [i \in 1..Len(PushOrder) |-> <<PushOrder[i], "ok">>]

\* C23: with a client that never reads among the connections, each broadcast
\* puts a signal on the channel of every reading connection of its snapshot
\* (it neither times out on it nor ends before reaching it), every signal put
\* on a reading connection that watches all four types is followed by a full
\* CDS, RDS, EDS, LDS round, and a round uses up one signal: two broadcasts
\* give such a connection two rounds.
C23_HealthyClientsGetEveryRound ==
  /\ [][\A c \in HealthyClients :
          /\ (\E p \in tmpMap \ tmpMap' : p[2] = c) =>
               /\ lastOp'.kind = "signal" /\ lastOp'.c = c
               /\ con[c].pushChannel = 0 /\ con'[c].pushChannel = 1
          /\ (lastOp'.kind = "push" /\ lastOp'.c = c /\ pc[c] = "loop"
              /\ con'[c].pushChannel < con[c].pushChannel /\ AllWatched(con[c])) =>
               lastOp'.log = FullRound
          /\ (con'[c].pushChannel < con[c].pushChannel) =>
               (lastOp'.kind = "push" /\ lastOp'.c = c)
      ]_vars
  /\ \A c \in HealthyClients :
       (lastOp.kind = "signal" /\ lastOp.c = c /\ AllWatched(con[c]))
         ~> (lastOp.kind = "push" /\ lastOp.c = c /\ lastOp.log = FullRound)

\* the second broadcast timed out on the stuck connection, then signalled the
\* reading one, which has sent its round for that signal
C23_Witness ==
  \E c \in HealthyClients, s \in StuckClients :
    /\ nbroadcast = 0 /\ tmpMap = {}
    /\ lastOp.kind = "push" /\ lastOp.c = c /\ lastOp.log = FullRound
    /\ con[s].LastPushFailure = 1 + PushTimeout /\ pc[s] = "loop"
    /\ con[s].pushChannel = 1
    /\ con[c].LastPush = con[s].LastPushFailure
    /\ con[c].pushChannel = 0

\* ================================================ goroutines, step by step
\* The calls that take the locks, followed instruction by instruction: each
\* program is the sequence of lock operations, accesses to the shared maps and
\* sends that the function executes, in the order of its code.
MaxCalls == 3
MaxWatched == 2

adsVars == <<con, pc, ret, adsClients, adsSidecarIDConnectionsMap, edsClusters,
             connectionNumber, tmpMap, now, lastOp, budget, inputs, faults,
             nbroadcast, nticks>>

adsClientsMutex == "adsClientsMutex"
edsClusterMutex == "edsClusterMutex"

RECURSIVE Times(_, _)
Times(prog, n) == IF n = 0 THEN <<>> ELSE prog \o Times(prog, n - 1)

\* addEdsCon and removeEdsCon change the cluster index under its own lock
addEdsConProg ==
  <<<<"Lock", edsClusterMutex>>, <<"Write", "edsClusters">>, <<"Unlock", edsClusterMutex>>>>
removeEdsConProg ==
  <<<<"Lock", edsClusterMutex>>, <<"Write", "edsClusters">>, <<"Unlock", edsClusterMutex>>>>

addConProg ==
  <<<<"Lock", adsClientsMutex>>,
    <<"Write", "adsClients">>, <<"Read", "adsClients">>,
    <<"Read", "adsSidecarIDConnectionsMap">>, <<"Write", "adsSidecarIDConnectionsMap">>,
    <<"Unlock", adsClientsMutex>>>>

\* removeCon of a connection with n names in con.Clusters
removeConProg(n) ==
  <<<<"Lock", adsClientsMutex>>>>
  \o Times(removeEdsConProg, n)
  \o <<<<"Read", "adsClients">>, <<"Write", "adsClients">>, <<"Read", "adsClients">>,
       <<"Write", "adsSidecarIDConnectionsMap">>,
       <<"Unlock", adsClientsMutex>>>>

edsClientCountProg ==
  <<<<"Lock", edsClusterMutex>>, <<"Read", "adsClients">>, <<"Unlock", edsClusterMutex>>>>

\* adsPushAll up to its loop over tmpMap
adsPushAllProg ==
  <<<<"Lock", edsClusterMutex>>, <<"Read", "edsClusters">>, <<"Unlock", edsClusterMutex>>,
    <<"RLock", adsClientsMutex>>, <<"Read", "adsClients">>, <<"RUnlock", adsClientsMutex>>>>

\* send: go func() { con.stream.Send(res) }, then the select on the timer and done
sendProg == <<<<"go", "Send">>, <<"select", "Send">>>>

\* if !con.added { con.added = true; s.addCon(...); defer s.removeCon(...) }
registerProg == <<<<"set", "added">>>> \o addConProg

\* One pass of the stream loop for a request: an EDS request with n names
\* calls addEdsCon for each, k is 1 when the request is answered by a push.
requestProg(n, k, added) ==
  Times(addEdsConProg, n) \o Times(sendProg, k) \o (IF added THEN <<>> ELSE registerProg)

\* One pass of the stream loop for a push signal that makes k pushes.
pushProg(k) == Times(sendProg, k)

\* The deferred calls of a stream that returns.
deferredProg(tk) == IF tk.added THEN removeConProg(tk.clusters) ELSE <<>>

InitTasks ==
  /\ InitAds([c \in Conns |-> 0], {}, {}, 0)
  /\ task = [t \in Tasks |-> [NoTask EXCEPT !.calls = MaxCalls]]
  /\ step = NoStep
  /\ build = NoBuild

Ready(t) == task[t].prog = <<>> /\ task[t].calls > 0 /\ ~task[t].returned

Called(t, name) == [task |-> t, instr |-> <<"call", name>>, held |-> task[t].held]
Executed(t) == [task |-> t, instr |-> Head(task[t].prog), held |-> task[t].held]

\* the stream loop takes a request
CallRequest(t, n, k) ==
  /\ t = "stream" /\ Ready(t)
  /\ n > 0 => k = 1
  /\ task' = [task EXCEPT ![t].prog = requestProg(n, k, task[t].added),
                          ![t].clusters = IF n > 0 THEN n ELSE @,
                          ![t].calls = @ - 1]
  /\ step' = Called(t, "request")
  /\ UNCHANGED <<adsVars, build>>

\* the stream loop takes a push signal
CallPush(t, k) ==
  /\ t = "stream" /\ Ready(t)
  /\ task[t].added
  /\ task' = [task EXCEPT ![t].prog = pushProg(k), ![t].calls = @ - 1]
  /\ step' = Called(t, "push")
  /\ UNCHANGED <<adsVars, build>>

\* the request channel is closed: the loop returns
CallReturn(t) ==
  /\ t = "stream" /\ Ready(t)
  /\ task' = [task EXCEPT ![t].prog = deferredProg(task[t]), ![t].returned = TRUE]
  /\ step' = Called(t, "return")
  /\ UNCHANGED <<adsVars, build>>

CallAdsPushAll(t) ==
  /\ t = "adsPushAll" /\ Ready(t)
  /\ task' = [task EXCEPT ![t].prog = adsPushAllProg, ![t].calls = @ - 1]
  /\ step' = Called(t, "adsPushAll")
  /\ UNCHANGED <<adsVars, build>>

CallEdsClientCount(t) ==
  /\ t = "edsClientCount" /\ Ready(t)
  /\ task' = [task EXCEPT ![t].prog = edsClientCountProg, ![t].calls = @ - 1]
  /\ step' = Called(t, "edsClientCount")
  /\ UNCHANGED <<adsVars, build>>

Holders(m, modes) == {u \in Tasks : \E md \in modes : <<m, md>> \in task[u].held}

\* sync.RWMutex: Lock waits for every holder, RLock for a writer
Acquire(t) ==
  /\ task[t].prog # <<>>
  /\ LET i == Head(task[t].prog)
     IN /\ i[1] \in {"Lock", "RLock"}
        /\ Holders(i[2], IF i[1] = "Lock" THEN {"W", "R"} ELSE {"W"}) = {}
        /\ task' = [task EXCEPT ![t].prog = Tail(@),
                                ![t].held = @ \cup {<<i[2], IF i[1] = "Lock" THEN "W" ELSE "R">>}]
  /\ step' = Executed(t)
  /\ UNCHANGED <<adsVars, build>>

Release(t) ==
  /\ task[t].prog # <<>>
  /\ LET i == Head(task[t].prog)
     IN /\ i[1] \in {"Unlock", "RUnlock"}
        /\ task' = [task EXCEPT ![t].prog = Tail(@),
                                ![t].held = @ \ {<<i[2], IF i[1] = "Unlock" THEN "W" ELSE "R">>}]
  /\ step' = Executed(t)
  /\ UNCHANGED <<adsVars, build>>

\* a read or a write of one of the shared maps, or of con.added
Access(t) ==
  /\ task[t].prog # <<>>
  /\ LET i == Head(task[t].prog)
     IN /\ i[1] \in {"Read", "Write", "set"}
        /\ task' = [task EXCEPT ![t].prog = Tail(@),
                                ![t].added = IF i = <<"set", "added">> THEN TRUE ELSE @]
  /\ step' = Executed(t)
  /\ UNCHANGED <<adsVars, build>>

\* go func() { err := con.stream.Send(res); done <- err }()
GoSend(t) ==
  /\ task[t].prog # <<>>
  /\ Head(task[t].prog) = <<"go", "Send">>
  /\ task' = [task EXCEPT ![t].prog = Tail(@), ![t].sending = @ + 1]
  /\ step' = Executed(t)
  /\ UNCHANGED <<adsVars, build>>

\* The stream loop returns err from the pass it is in: its deferred calls run.
ReturnFrom(tk) == [tk EXCEPT !.prog = deferredProg(tk), !.returned = TRUE]

\* A timeout of send after which the loop goes on with its pass.
SelectTimerGoesOn(t) ==
  /\ task[t].prog # <<>>
  /\ Head(task[t].prog) = <<"select", "Send">>
  /\ task[t].sending > 0
  /\ task' = [task EXCEPT ![t].prog = Tail(@)]
  /\ step' = [Executed(t) EXCEPT !.instr = <<"select", "timeout">>]
  /\ UNCHANGED <<adsVars, build>>

\* select: case <-t.C, Send has not returned: send returns "timeout sending"
SelectTimer(t) ==
  /\ task[t].prog # <<>>
  /\ Head(task[t].prog) = <<"select", "Send">>
  /\ task[t].sending > 0
  /\ task' = [task EXCEPT ![t] = ReturnFrom(@)]
  /\ step' = [Executed(t) EXCEPT !.instr = <<"select", "timeout">>]
  /\ UNCHANGED <<adsVars, build>>

\* select: case err := <-done, Send has returned err
SelectDone(t, err) ==
  /\ task[t].prog # <<>>
  /\ Head(task[t].prog) = <<"select", "Send">>
  /\ task[t].sending > 0
  /\ task' = [task EXCEPT ![t] = IF err = "nil"
                                 THEN [@ EXCEPT !.prog = Tail(@), !.sending = @ - 1]
                                 ELSE [ReturnFrom(@) EXCEPT !.sending = @ - 1]]
  /\ step' = [Executed(t) EXCEPT !.instr = <<"select", err>>]
  /\ UNCHANGED <<adsVars, build>>

\* a Send that was left behind by a timeout returns at last
SendReturnsLate(t) ==
  /\ task[t].sending > 0
  /\ IF task[t].prog = <<>> THEN TRUE ELSE Head(task[t].prog) # <<"select", "Send">>
  /\ task' = [task EXCEPT ![t].sending = @ - 1]
  /\ step' = [task |-> t, instr |-> <<"done", "Send">>, held |-> task[t].held]
  /\ UNCHANGED <<adsVars, build>>

NextTasks ==
  \/ \E t \in Tasks, n \in 0..MaxWatched, k \in 0..1 : CallRequest(t, n, k)
  \/ \E t \in Tasks, k \in 1..4 : CallPush(t, k)
  \/ \E t \in Tasks : CallReturn(t)
  \/ \E t \in Tasks : CallAdsPushAll(t)
  \/ \E t \in Tasks : CallEdsClientCount(t)
  \/ \E t \in Tasks : Acquire(t)
  \/ \E t \in Tasks : Release(t)
  \/ \E t \in Tasks : Access(t)
  \/ \E t \in Tasks : GoSend(t)
  \/ \E t \in Tasks : SelectTimer(t)
  \/ \E t \in Tasks, err \in {"nil", "senderr"} : SelectDone(t, err)
  \/ \E t \in Tasks : SendReturnsLate(t)

SpecTasks == InitTasks /\ [][NextTasks]_vars

Holds(s, m) == \E md \in {"W", "R"} : <<m, md>> \in s.held

\* C25: no goroutine acquires edsClusterMutex while it holds adsClientsMutex.
C25_NoEdsLockUnderRegistryLock ==
  (step.instr[1] \in {"Lock", "RLock"} /\ step.instr[2] = edsClusterMutex)
    => ~Holds(step, adsClientsMutex)

\* C26: every read of adsClients or adsSidecarIDConnectionsMap is made by a
\* goroutine that holds adsClientsMutex (read- or write-locked), and every
\* write by one that holds it write-locked.
C26_RegistryAccessUnderLock ==
  (step.instr[2] \in {"adsClients", "adsSidecarIDConnectionsMap"}) =>
     /\ step.instr[1] = "Read" => Holds(step, adsClientsMutex)
     /\ step.instr[1] = "Write" => <<adsClientsMutex, "W">> \in step.held

\* C27: at most one Send is in progress on a stream; a Send is started by the
\* stream's own loop only, while no other is in progress and the loop has not
\* returned; and once a send has timed out, no Send is started again.
C27_OneSendAtATime ==
  /\ [][\A t \in Tasks :
          /\ task'[t].sending > task[t].sending =>
               /\ step'.task = t /\ step'.instr = <<"go", "Send">>
               /\ task[t].sending = 0
               /\ ~task[t].returned
          /\ (step'.instr = <<"select", "timeout">> /\ step'.task = t) => task'[t].returned
          /\ task[t].returned => (task'[t].returned /\ task'[t].sending <= task[t].sending)
      ]_vars
  /\ [](\A t \in Tasks : task[t].sending <= 1)

\* a send of a registered stream has timed out with its Send still blocked,
\* and the stream has returned and run its deferred removeCon to the end
C27_Witness ==
  /\ task["stream"].returned /\ task["stream"].sending = 1
  /\ task["stream"].prog = <<>> /\ task["stream"].added
  /\ step.task = "stream" /\ step.instr = <<"Unlock", adsClientsMutex>>

\* ===================================================== BuildClusters (CDS)
\* Durations are whole seconds. An optional value (a pointer that may be nil)
\* is a sequence of length at most one. Of a cluster the model keeps the name,
\* the discovery type, the connect timeout, the load balancer policy and the
\* EDS config; of a traffic policy the load balancer, the TCP connect timeout
\* of the connection pool and the port level settings.
MaxServices == 1
MaxSubsets == 1
MaxInstances == 2
MaxRuleSubsets == 2

defaultClusterConnectTimeout == 5
DefaultLbType == "ROUND_ROBIN"
ManagementClusterHostname == "mgmtCluster"
BlackHoleCluster == "BlackHoleCluster"
Sidecar == "sidecar"

Nil == <<>>
Some(x) == <<x>>

ProxyTypes == {Sidecar, "router"}
MeshConnectTimeouts == {0, 1}
Resolutions == {"ClientSideLB", "DNSLB", "Passthrough"}
HttpPort == [Port |-> 80, Name |-> "http"]
OtherPort == [Port |-> 81, Name |-> "tcp"]
MgmtPort == [Port |-> 9090, Name |-> "mgmt"]

LbSettings == {Nil, Some("ROUND_ROBIN"), Some("PASSTHROUGH")}
TcpConnectTimeouts == {Nil, Some(0), Some(2)}
PortSettings ==
  {<<>>,
   <<[Port |-> Some([Number |-> HttpPort.Port]), LoadBalancer |-> Nil, ConnectTimeout |-> Nil]>>,
   <<[Port |-> Some([Number |-> OtherPort.Port]), LoadBalancer |-> Some("PASSTHROUGH"),
      ConnectTimeout |-> Some(0)]>>}
\* *networking.TrafficPolicy, nil included
TrafficPolicies ==
  {Nil} \cup
  {Some([LoadBalancer |-> lb, ConnectTimeout |-> ct, PortLevelSettings |-> pl]) :
     lb \in LbSettings, ct \in TcpConnectTimeouts, pl \in PortSettings}
SubsetPolicies ==
  {Nil} \cup
  {Some([LoadBalancer |-> lb, ConnectTimeout |-> ct, PortLevelSettings |-> <<>>]) :
     lb \in LbSettings, ct \in TcpConnectTimeouts}

SeqsUpTo(S, n) == UNION {[1..k -> S] : k \in 0..n}

\* env.DestinationRule(hostname): nil, or a rule with its subsets
SubsetNames == <<"v1", "v2", "v3">>
\* the subsets of a rule: distinct names, each with its own policy or none
SubsetLists(n) ==
  UNION {{[i \in 1..k |-> [Name |-> SubsetNames[i], TrafficPolicy |-> sp[i]]] :
            sp \in [1..k -> SubsetPolicies]} : k \in 0..n}
DestinationRulesWith(n) ==
  {Nil} \cup
  {Some([TrafficPolicy |-> tp, Subsets |-> ss]) :
     tp \in TrafficPolicies, ss \in SubsetLists(n)}
DestinationRules == DestinationRulesWith(MaxSubsets)

Hostnames == <<"a.ns", "b.ns", "c.ns">>
\* the services of the registry: distinct hostnames, one port each
ServiceLists ==
  UNION {{[i \in 1..k |-> [Hostname |-> Hostnames[i], Resolution |-> r[i], Ports |-> <<HttpPort>>]] :
            r \in [1..k -> Resolutions]} : k \in 0..MaxServices}

\* the proxy's own instances and management ports
\* (instances of the first service's port, on endpoint ports of their own)
InstanceLists ==
  {[i \in 1..k |-> [Service |-> [Hostname |-> Hostnames[1]], ServicePort |-> HttpPort,
                    EndpointPort |-> 8079 + i]] : k \in 0..MaxInstances}
ManagementPortLists == {<<>>, <<MgmtPort>>}

\* One call of BuildClusters: the environment and the proxy. Every service of
\* the call has the same destination rule (or none).
BuildInputs ==
  {[ProxyType |-> pt, ConnectTimeout |-> mt, Services |-> sv, Rule |-> dr,
    Instances |-> ins, ManagementPorts |-> mp, Plugins |-> pg, Err |-> e] :
     pt \in ProxyTypes, mt \in MeshConnectTimeouts, sv \in ServiceLists,
     dr \in DestinationRules, ins \in InstanceLists, mp \in ManagementPortLists,
     pg \in {<<>>, <<"plugin">>}, e \in {"nil", "Services", "GetProxyServiceInstances"}}

\* model.BuildSubsetKey(direction, subsetName, hostname, port)
BuildSubsetKey(direction, subsetName, hostname, port) ==
  <<direction, port, subsetName, hostname>>

convertResolution(resolution) ==
  CASE resolution = "ClientSideLB" -> "EDS"
    [] resolution = "DNSLB" -> "STRICT_DNS"
    [] resolution = "Passthrough" -> "ORIGINAL_DST"
    [] OTHER -> "EDS"

\* The settings with no override by the load balancer.
applyLoadBalancerKeepsType(cluster, lb) ==
  IF lb = Nil THEN cluster
  ELSE CASE lb[1] = "LEAST_CONN" -> [cluster EXCEPT !.LbPolicy = "LEAST_REQUEST"]
         [] lb[1] = "RANDOM" -> [cluster EXCEPT !.LbPolicy = "RANDOM"]
         [] lb[1] = "ROUND_ROBIN" -> [cluster EXCEPT !.LbPolicy = "ROUND_ROBIN"]
         [] lb[1] = "PASSTHROUGH" -> [cluster EXCEPT !.LbPolicy = "ORIGINAL_DST_LB"]
         [] OTHER -> cluster

applyLoadBalancer(cluster, lb) ==
  IF lb = Nil THEN cluster
  ELSE CASE lb[1] = "LEAST_CONN" -> [cluster EXCEPT !.LbPolicy = "LEAST_REQUEST"]
         [] lb[1] = "RANDOM" -> [cluster EXCEPT !.LbPolicy = "RANDOM"]
         [] lb[1] = "ROUND_ROBIN" -> [cluster EXCEPT !.LbPolicy = "ROUND_ROBIN"]
         [] lb[1] = "PASSTHROUGH" -> [cluster EXCEPT !.LbPolicy = "ORIGINAL_DST_LB",
                                                      !.Type = "ORIGINAL_DST"]
         [] OTHER -> cluster

\* applyConnectionPool, for settings.Tcp.ConnectTimeout
applyConnectionPool(cluster, ct) ==
  IF ct = Nil THEN cluster ELSE [cluster EXCEPT !.ConnectTimeout = ct[1]]

PortMatches(p, port) ==
  /\ p.Port # Nil
  /\ \/ "Name" \in DOMAIN p.Port[1] /\ port.Name = p.Port[1].Name
     \/ "Number" \in DOMAIN p.Port[1] /\ port.Port = p.Port[1].Number

\* the settings that applyTrafficPolicy applies: those of the first port
\* level setting that selects the port, else the policy's own
SettingsFor(policy, port) ==
  LET found == {i \in 1..Len(policy.PortLevelSettings) :
                  port # Nil /\ PortMatches(policy.PortLevelSettings[i], port[1])}
  IN IF found = {} THEN policy
     ELSE policy.PortLevelSettings[CHOOSE i \in found : \A j \in found : i <= j]

applyTrafficPolicy(cluster, policy, port) ==
  IF policy = Nil THEN cluster
  ELSE LET s == SettingsFor(policy[1], port)
       IN applyLoadBalancer(applyConnectionPool(cluster, s.ConnectTimeout), s.LoadBalancer)

buildDefaultTrafficPolicy(env, discoveryType) ==
  [LoadBalancer |-> Some(IF discoveryType = "ORIGINAL_DST" THEN "PASSTHROUGH" ELSE DefaultLbType),
   ConnectTimeout |-> Some(env.ConnectTimeout),
   PortLevelSettings |-> <<>>]

buildDefaultCluster(env, name, discoveryType) ==
  applyTrafficPolicy([Name |-> name, Type |-> discoveryType, ConnectTimeout |-> 0,
                      LbPolicy |-> "ROUND_ROBIN", EdsClusterConfig |-> Nil],
                     Some(buildDefaultTrafficPolicy(env, discoveryType)), Nil)

buildBlackHoleCluster ==
  [Name |-> BlackHoleCluster, Type |-> "STATIC",
   ConnectTimeout |-> defaultClusterConnectTimeout, LbPolicy |-> "ROUND_ROBIN",
   EdsClusterConfig |-> Nil]

updateEds(cluster) ==
  IF cluster.Type # "EDS" THEN cluster
  ELSE [cluster EXCEPT !.EdsClusterConfig = Some([ServiceName |-> cluster.Name, EdsConfig |-> "Ads"])]

\* the calls of hook on cluster name, one per plugin
Hooks(env, hook, name) == [i \in 1..Len(env.Plugins) |-> <<env.Plugins[i], hook, name>>]

\* The subset clusters with the subset's policy applied before the rule's.
OutboundForPortSubsetFirst(env, service, port) ==
  LET type == convertResolution(service.Resolution)
      defaultName == BuildSubsetKey("outbound", "", service.Hostname, port.Port)
      made == updateEds(buildDefaultCluster(env, defaultName, type))
      defaultCluster ==
        IF env.Rule # Nil THEN applyTrafficPolicy(made, env.Rule[1].TrafficPolicy, Some(port))
        ELSE made
      subsets == IF env.Rule # Nil THEN env.Rule[1].Subsets ELSE <<>>
      subsetCluster(subset) ==
        applyTrafficPolicy(
          applyTrafficPolicy(
            updateEds(buildDefaultCluster(env,
              BuildSubsetKey("outbound", subset.Name, service.Hostname, port.Port), type)),
            subset.TrafficPolicy, Some(port)),
          env.Rule[1].TrafficPolicy, Some(port))
      RECURSIVE SubsetHooks(_)
      SubsetHooks(i) ==
        IF i > Len(subsets) THEN <<>>
        ELSE Hooks(env, "OnOutboundCluster", subsetCluster(subsets[i]).Name) \o SubsetHooks(i + 1)
  IN [clusters |-> <<defaultCluster>> \o [i \in 1..Len(subsets) |-> subsetCluster(subsets[i])],
      hooks |-> SubsetHooks(1) \o Hooks(env, "OnOutboundCluster", defaultName)]

\* buildOutboundClusters for one port of one service: the default cluster,
\* then the subset clusters; the plugins see each subset cluster as it is
\* made and the default cluster last
OutboundForPort(env, service, port) ==
  LET type == convertResolution(service.Resolution)
      defaultName == BuildSubsetKey("outbound", "", service.Hostname, port.Port)
      made == updateEds(buildDefaultCluster(env, defaultName, type))
      defaultCluster ==
        IF env.Rule # Nil THEN applyTrafficPolicy(made, env.Rule[1].TrafficPolicy, Some(port))
        ELSE made
      subsets == IF env.Rule # Nil THEN env.Rule[1].Subsets ELSE <<>>
      subsetCluster(subset) ==
        applyTrafficPolicy(
          applyTrafficPolicy(
            updateEds(buildDefaultCluster(env,
              BuildSubsetKey("outbound", subset.Name, service.Hostname, port.Port), type)),
            env.Rule[1].TrafficPolicy, Some(port)),
          subset.TrafficPolicy, Some(port))
      RECURSIVE SubsetHooks(_)
      SubsetHooks(i) ==
        IF i > Len(subsets) THEN <<>>
        ELSE Hooks(env, "OnOutboundCluster", subsetCluster(subsets[i]).Name) \o SubsetHooks(i + 1)
  IN [clusters |-> <<defaultCluster>> \o [i \in 1..Len(subsets) |-> subsetCluster(subsets[i])],
      hooks |-> SubsetHooks(1) \o Hooks(env, "OnOutboundCluster", defaultName)]

RECURSIVE OutboundForPorts(_, _, _)
OutboundForPorts(env, service, i) ==
  IF i > Len(service.Ports) THEN [clusters |-> <<>>, hooks |-> <<>>]
  ELSE LET a == OutboundForPort(env, service, service.Ports[i])
           b == OutboundForPorts(env, service, i + 1)
       IN [clusters |-> a.clusters \o b.clusters, hooks |-> a.hooks \o b.hooks]

RECURSIVE buildOutboundClustersFrom(_, _)
buildOutboundClustersFrom(env, i) ==
  IF i > Len(env.Services) THEN [clusters |-> <<>>, hooks |-> <<>>]
  ELSE LET a == OutboundForPorts(env, env.Services[i], 1)
           b == buildOutboundClustersFrom(env, i + 1)
       IN [clusters |-> a.clusters \o b.clusters, hooks |-> a.hooks \o b.hooks]

buildOutboundClusters(env) == buildOutboundClustersFrom(env, 1)

\* buildInboundClusters: one cluster per instance, then one per management port
InboundForInstance(env, instance) ==
  LET name == BuildSubsetKey("inbound", "", instance.Service.Hostname, instance.ServicePort.Port)
      localCluster == buildDefaultCluster(env, name, "STATIC")
  IN IF env.Rule # Nil /\ env.Rule[1].TrafficPolicy # Nil
     THEN applyConnectionPool(localCluster, env.Rule[1].TrafficPolicy[1].ConnectTimeout)
     ELSE localCluster

buildInboundClusters(env) ==
  [clusters |->
     [i \in 1..Len(env.Instances) |-> InboundForInstance(env, env.Instances[i])]
     \o [i \in 1..Len(env.ManagementPorts) |->
           buildDefaultCluster(env, BuildSubsetKey("inbound", "", ManagementClusterHostname,
                                                   env.ManagementPorts[i].Port), "STATIC")],
   hooks |->
     [i \in 1..Len(env.Instances) * Len(env.Plugins) |->
        <<env.Plugins[((i - 1) % Len(env.Plugins)) + 1], "OnInboundCluster",
          InboundForInstance(env, env.Instances[((i - 1) \div Len(env.Plugins)) + 1]).Name>>]]

\* Envoy requires a non-zero connect timeout
NonZeroConnectTimeout(c) ==
  IF c.ConnectTimeout = 0 THEN [c EXCEPT !.ConnectTimeout = defaultClusterConnectTimeout] ELSE c

\* BuildClusters with the blackhole cluster added before the inbound clusters.
BuildClustersBlackHoleEarly(env) ==
  IF env.Err = "Services" THEN [clusters |-> <<>>, err |-> env.Err, hooks |-> <<>>]
  ELSE LET out == buildOutboundClusters(env)
           fixed == [i \in 1..Len(out.clusters) |-> NonZeroConnectTimeout(out.clusters[i])]
       IN IF env.ProxyType = Sidecar
          THEN IF env.Err = "GetProxyServiceInstances"
               THEN [clusters |-> <<>>, err |-> env.Err, hooks |-> out.hooks]
               ELSE LET inb == buildInboundClusters(env)
                    IN [clusters |-> fixed \o <<buildBlackHoleCluster>> \o inb.clusters,
                        err |-> "nil", hooks |-> out.hooks \o inb.hooks]
          ELSE [clusters |-> fixed \o <<buildBlackHoleCluster>>, err |-> "nil",
                hooks |-> out.hooks]

BuildClusters(env) ==
  IF env.Err = "Services" THEN [clusters |-> <<>>, err |-> env.Err, hooks |-> <<>>]
  ELSE LET out == buildOutboundClusters(env)
           fixed == [i \in 1..Len(out.clusters) |-> NonZeroConnectTimeout(out.clusters[i])]
       IN IF env.ProxyType = Sidecar
          THEN IF env.Err = "GetProxyServiceInstances"
               THEN [clusters |-> <<>>, err |-> env.Err, hooks |-> out.hooks]
               ELSE LET inb == buildInboundClusters(env)
                    IN [clusters |-> fixed \o inb.clusters \o <<buildBlackHoleCluster>>,
                        err |-> "nil", hooks |-> out.hooks \o inb.hooks]
          ELSE [clusters |-> fixed \o <<buildBlackHoleCluster>>, err |-> "nil",
                hooks |-> out.hooks]

InitClusters ==
  /\ InitAds([c \in Conns |-> 0], {}, {}, 0)
  /\ task = [t \in Tasks |-> NoTask]
  /\ step = NoStep
  /\ build \in {[NoBuild EXCEPT !.in = Some(i)] : i \in BuildInputs}

CallBuildClusters ==
  /\ build.call = ""
  /\ build' = [build EXCEPT !.call = "BuildClusters", !.out = BuildClusters(build.in[1])]
  /\ UNCHANGED <<adsVars, task, step>>

NextClusters == CallBuildClusters
SpecClusters == InitClusters /\ [][NextClusters]_vars

Built == build.call = "BuildClusters" /\ build.out.err = "nil"
BuiltFor == build.in[1]
BuiltClusters == build.out.clusters

\* C28: every cluster that BuildClusters returns has a connect timeout greater
\* than zero, whatever the proxy type and the mesh's default connect timeout.
C28_ConnectTimeoutPositive ==
  Built => \A i \in 1..Len(BuiltClusters) : BuiltClusters[i].ConnectTimeout > 0

\* C29: the list a successful BuildClusters returns ends with the blackhole
\* cluster, as buildBlackHoleCluster makes it, and no plugin hook was called on
\* a cluster of that name.
C29_BlackHoleLastNoPlugins ==
  Built =>
    /\ Len(BuiltClusters) >= 1
    /\ BuiltClusters[Len(BuiltClusters)] =
         [Name |-> BlackHoleCluster, Type |-> "STATIC",
          ConnectTimeout |-> defaultClusterConnectTimeout, LbPolicy |-> "ROUND_ROBIN",
          EdsClusterConfig |-> Nil]
    /\ \A i \in 1..Len(build.out.hooks) : build.out.hooks[i][3] # BlackHoleCluster

\* a sidecar with a service, a subset, an instance and a management port, with
\* a plugin: hooks were called on the other clusters, the blackhole is last
C29_Witness ==
  /\ Built
  /\ BuiltFor.ProxyType = Sidecar /\ BuiltFor.Plugins # <<>>
  /\ Len(BuiltFor.Services) = 1 /\ BuiltFor.Rule # Nil
  /\ Len(BuiltFor.Rule[1].Subsets) = 1
  /\ Len(BuiltFor.Instances) = 1 /\ Len(BuiltFor.ManagementPorts) = 1
  /\ Len(BuiltClusters) = 5 /\ Len(build.out.hooks) = 3
  /\ BuiltClusters[5].Name = BlackHoleCluster
  /\ BuiltClusters[4].Name[4] = ManagementClusterHostname

\* the discovery type the resolution of a service stands for
TypeOfResolution(r) ==
  CASE r = "ClientSideLB" -> "EDS"
    [] r = "DNSLB" -> "STRICT_DNS"
    [] r = "Passthrough" -> "ORIGINAL_DST"

\* C30: every outbound cluster of a service has the discovery type of the
\* service's resolution (ClientSideLB: EDS, DNSLB: STRICT_DNS, Passthrough:
\* ORIGINAL_DST), whatever destination rule the service has.
C30_TypeFromResolution ==
  Built =>
    \A i \in 1..Len(BuiltClusters), k \in 1..Len(BuiltFor.Services) :
      (/\ BuiltClusters[i].Name # BlackHoleCluster
       /\ BuiltClusters[i].Name[1] = "outbound"
       /\ BuiltClusters[i].Name[4] = BuiltFor.Services[k].Hostname) =>
        BuiltClusters[i].Type = TypeOfResolution(BuiltFor.Services[k].Resolution)

\* One service behind a router, with a destination rule of up to MaxRuleSubsets
\* subsets.
SubsetInputs ==
  {[ProxyType |-> "router", ConnectTimeout |-> mt, Services |-> sv, Rule |-> dr,
    Instances |-> <<>>, ManagementPorts |-> <<>>, Plugins |-> <<"plugin">>, Err |-> "nil"] :
     mt \in MeshConnectTimeouts,
     sv \in {l \in ServiceLists : Len(l) = 1},
     dr \in DestinationRulesWith(MaxRuleSubsets)}
InitSubsets ==
  /\ InitAds([c \in Conns |-> 0], {}, {}, 0)
  /\ task = [t \in Tasks |-> NoTask]
  /\ step = NoStep
  /\ build \in {[NoBuild EXCEPT !.in = Some(i)] : i \in SubsetInputs}
SpecSubsets == InitSubsets /\ [][NextClusters]_vars

\* the first of the optional values that is set, d if none is
FirstSet(opts, d) ==
  LET set == {i \in 1..Len(opts) : opts[i] # Nil}
  IN IF set = {} THEN d ELSE opts[CHOOSE i \in set : \A j \in set : i <= j][1]

\* the settings of policy that count for the service's port
ForPort(policy) ==
  IF policy = Nil THEN [LoadBalancer |-> Nil, ConnectTimeout |-> Nil]
  ELSE LET sel == {i \in 1..Len(policy[1].PortLevelSettings) :
                     /\ policy[1].PortLevelSettings[i].Port # Nil
                     /\ policy[1].PortLevelSettings[i].Port[1].Number = HttpPort.Port}
       IN IF sel = {} THEN [LoadBalancer |-> policy[1].LoadBalancer,
                            ConnectTimeout |-> policy[1].ConnectTimeout]
          ELSE LET p == policy[1].PortLevelSettings[CHOOSE i \in sel : \A j \in sel : i <= j]
               IN [LoadBalancer |-> p.LoadBalancer, ConnectTimeout |-> p.ConnectTimeout]

LbPolicyOf(lb) ==
  CASE lb = "ROUND_ROBIN" -> "ROUND_ROBIN"
    [] lb = "PASSTHROUGH" -> "ORIGINAL_DST_LB"

\* C31: for the port of a service whose destination rule has k subsets the
\* list holds k + 1 outbound clusters: the default cluster, then one cluster
\* per subset under the subset's name; in a subset cluster a setting of the
\* subset's own policy wins over the same setting of the rule's top-level
\* policy, which wins over the default.
C31_SubsetClusters ==
  (Built /\ Len(BuiltFor.Services) = 1 /\ BuiltFor.Rule # Nil) =>
    LET svc == BuiltFor.Services[1]
        rule == BuiltFor.Rule[1]
        k == Len(rule.Subsets)
        mine == SelectSeq(BuiltClusters,
                          LAMBDA c : c.Name # BlackHoleCluster /\ c.Name[1] = "outbound")
        top == ForPort(rule.TrafficPolicy)
        defaultLb == IF svc.Resolution = "Passthrough" THEN "PASSTHROUGH" ELSE DefaultLbType
    IN /\ Len(mine) = k + 1
       /\ mine[1].Name = <<"outbound", HttpPort.Port, "", svc.Hostname>>
       /\ \A i \in 1..k :
            LET own == ForPort(rule.Subsets[i].TrafficPolicy)
                ct == FirstSet(<<own.ConnectTimeout, top.ConnectTimeout>>,
                               BuiltFor.ConnectTimeout)
            IN /\ mine[i + 1].Name = <<"outbound", HttpPort.Port, rule.Subsets[i].Name, svc.Hostname>>
               /\ mine[i + 1].LbPolicy =
                    LbPolicyOf(FirstSet(<<own.LoadBalancer, top.LoadBalancer>>, defaultLb))
               /\ mine[i + 1].ConnectTimeout =
                    (IF ct = 0 THEN defaultClusterConnectTimeout ELSE ct)

\* a rule with two subsets: the first overrides the load balancer and the
\* connect timeout that the top-level policy sets, the second has no policy
C31_Witness ==
  /\ Built /\ Len(BuiltFor.Services) = 1 /\ BuiltFor.Rule # Nil
  /\ Len(BuiltFor.Rule[1].Subsets) = 2
  /\ BuiltFor.Rule[1].TrafficPolicy # Nil
  /\ BuiltFor.Rule[1].TrafficPolicy[1].LoadBalancer = Some("PASSTHROUGH")
  /\ BuiltFor.Rule[1].TrafficPolicy[1].ConnectTimeout = Some(2)
  /\ BuiltFor.Rule[1].TrafficPolicy[1].PortLevelSettings = <<>>
  /\ BuiltFor.Rule[1].Subsets[1].TrafficPolicy # Nil
  /\ BuiltFor.Rule[1].Subsets[1].TrafficPolicy[1].LoadBalancer = Some("ROUND_ROBIN")
  /\ BuiltFor.Rule[1].Subsets[1].TrafficPolicy[1].ConnectTimeout = Some(0)
  /\ BuiltFor.Rule[1].Subsets[2].TrafficPolicy = Nil
  /\ Len(BuiltClusters) = 4
  /\ BuiltClusters[2].LbPolicy = "ROUND_ROBIN"
  /\ BuiltClusters[2].ConnectTimeout = defaultClusterConnectTimeout
  /\ BuiltClusters[3].LbPolicy = "ORIGINAL_DST_LB"
  /\ BuiltClusters[3].ConnectTimeout = 2

\* C39: an outbound cluster of the returned list carries an EdsClusterConfig
\* (ADS source, service name equal to the cluster's name) exactly when its
\* discovery type is EDS.
C39_EdsConfigIffEds ==
  Built =>
    \A i \in 1..Len(BuiltClusters) :
      (BuiltClusters[i].Name # BlackHoleCluster /\ BuiltClusters[i].Name[1] = "outbound") =>
        /\ BuiltClusters[i].Type = "EDS" <=> BuiltClusters[i].EdsClusterConfig # Nil
        /\ BuiltClusters[i].EdsClusterConfig # Nil =>
             BuiltClusters[i].EdsClusterConfig[1] =
               [ServiceName |-> BuiltClusters[i].Name, EdsConfig |-> "Ads"]

SameName(a, b) ==
  IF a = BlackHoleCluster THEN b = BlackHoleCluster
  ELSE IF b = BlackHoleCluster THEN FALSE ELSE a = b

\* C40: no two clusters of the returned list have the same name.
C40_NamesUnique ==
  Built =>
    \A i, j \in 1..Len(BuiltClusters) :
      SameName(BuiltClusters[i].Name, BuiltClusters[j].Name) => i = j

\* C36: a connection's doneChannel changes only once, from open to closed, in
\* the deferred close that runs after the stream loop has returned; at that
\* point the deferred removeCon has already taken the connection out of
\* adsClients, so no connection whose doneChannel is closed is in adsClients,
\* and none is in a snapshot that adsPushAll takes afterwards.
C36_DoneClosedOnceAfterRemove ==
  [][/\ \A c \in Conns :
          con'[c].doneChannel # con[c].doneChannel =>
            /\ con[c].doneChannel = "open"
            /\ con'[c].doneChannel = "closed"
            /\ pc[c] = "closing"
            /\ lastOp'.kind = "closeDone"
            /\ \A p \in adsClients : p[2] # c
     /\ \A p \in adsClients' : con'[p[2]].doneChannel = "open"
     /\ \A p \in tmpMap' \ tmpMap : con'[p[2]].doneChannel = "open"]_vars

\* a broadcast takes its snapshot of a registry that still holds a client,
\* after a registered connection has been closed
C36_Witness ==
  /\ lastOp.kind = "pushAll"
  /\ tmpMap # {}
  /\ \E c \in Conns : con[c].doneChannel = "closed" /\ con[c].added

\* ------------------------------------------------ BuildListeners, sidecar
MaxListenerServices == 2
MaxMgmtPorts == 2

WildcardAddress == "::0"
LocalhostAddress == "::1"
VirtualListenerName == "virtual"
RDSHttpProxy == "http_proxy"
envoyHTTPConnectionManager == "envoy.http_connection_manager"
TCPProxy == "envoy.tcp_proxy"

\* plugin.ModelProtocolToListenerType, Protocol.IsHTTP and Protocol.IsTCP
ModelProtocolToListenerType(p) ==
  IF p \in {"HTTP", "HTTP2", "GRPC"} THEN "HTTP"
  ELSE IF p \in {"TCP", "HTTPS", "Mongo", "Redis"} THEN "TCP"
  ELSE "Unknown"
IsHTTP(p) == p \in {"HTTP", "HTTP2", "GRPC"}
IsTCP(p) == p \in {"TCP", "HTTPS", "Mongo", "Redis"}

\* util.BuildAddress(ip, port): a socket address; two of them print the same
\* with Address.String() exactly when ip and port are the same
BuildAddress(ip, port) == <<ip, port>>

\* fmt.Sprintf("%s:%d", address, port): the port has no colon, so the text
\* determines the pair
ListenerMapKey(address, port) == <<address, port>>

\* util.GetByAddress(listeners, address): the first listener bound to the
\* address, or nil
GetByAddress(listeners, address) ==
  IF \E i \in 1..Len(listeners) : listeners[i].Address = address
  THEN Some(listeners[CHOOSE i \in 1..Len(listeners) :
                        /\ listeners[i].Address = address
                        /\ \A j \in 1..(i - 1) : listeners[j].Address # address])
  ELSE Nil

\* buildInboundNetworkFilters(instance), buildOutboundNetworkFilters(clusterName, ...):
\* one tcp_proxy filter to the cluster
NetworkFilters(clusterName) == <<[Kind |-> "network", Name |-> TCPProxy, Cluster |-> clusterName]>>

\* What the plugins of the generator leave in mutable.FilterChains[0] for a
\* listener of the given type.
PluginKinds == {"none", "matching", "tcp", "http"}
PluginFilter(kind) == [Kind |-> kind, Name |-> "plugin", Cluster |-> <<>>]
OnListener(plugin, listenerType) ==
  LET adds == IF plugin = "matching" THEN (IF listenerType = "HTTP" THEN "http" ELSE "tcp")
              ELSE plugin
  IN [TCP |-> IF adds = "tcp" THEN <<PluginFilter("network")>> ELSE <<>>,
      HTTP |-> IF adds = "http" THEN <<PluginFilter("http")>> ELSE <<>>]
NoFilterChain == [TCP |-> <<>>, HTTP |-> <<>>]

\* filterChainOpts and buildListenerOpts
HttpOpts(routeConfig) == [routeConfig |-> routeConfig]
ChainOpts(sni, http, network) == [sniHosts |-> sni, httpOpts |-> http, networkFilters |-> network]

\* buildListener: one empty filter chain per chain of the options. for is
\* not a field of the listener: it names the port or instance of the call.
buildListener(opts, for) ==
  [Name |-> <<opts.ip, "_", opts.port>>,
   Address |-> BuildAddress(opts.ip, opts.port),
   FilterChains |-> [i \in 1..Len(opts.filterChainOpts) |->
                       [SniDomains |-> IF \E k \in 1..Len(opts.filterChainOpts[i].sniHosts) :
                                            opts.filterChainOpts[i].sniHosts[k] = "*"
                                       THEN <<>> ELSE opts.filterChainOpts[i].sniHosts,
                        Filters |-> <<>>]],
   BindToPort |-> opts.bindToPort,
   UseOriginalDst |-> FALSE,
   For |-> for]

\* buildHTTPConnectionManager: the plugins' HTTP filters, then cors, fault, router
HTTPConnectionManager(httpOpts, httpFilters) ==
  [Kind |-> "http", Name |-> envoyHTTPConnectionManager, Cluster |-> <<>>,
   HttpFilters |-> [i \in 1..Len(httpFilters) |-> httpFilters[i].Name] \o <<"cors", "fault", "router">>,
   RouteConfig |-> httpOpts[1].routeConfig]

\* the check of line 726 on chain i
MixesFilters(opts, chains, i) ==
  /\ Len(chains[i].TCP) > 0 \/ Len(opts.filterChainOpts[i].networkFilters) > 0
  /\ Len(chains[i].HTTP) > 0 \/ opts.filterChainOpts[i].httpOpts # Nil

\* fails on no chain at all, and on the first chain that mixes
MarshalError(opts, chains) ==
  \/ Len(opts.filterChainOpts) = 0
  \/ \E i \in 1..Len(chains) : MixesFilters(opts, chains, i)

\* marshalFilters that lets a mixed chain pass
marshalFiltersNoCheck(l, opts, chains) ==
  [err |-> Len(opts.filterChainOpts) = 0,
   l |-> [l EXCEPT !.FilterChains =
            [i \in 1..Len(l.FilterChains) |->
               IF i <= Len(chains)
               THEN [l.FilterChains[i] EXCEPT !.Filters =
                       @ \o chains[i].TCP \o opts.filterChainOpts[i].networkFilters
                         \o (IF opts.filterChainOpts[i].httpOpts # Nil
                             THEN <<HTTPConnectionManager(opts.filterChainOpts[i].httpOpts, chains[i].HTTP)>>
                             ELSE <<>>)]
               ELSE l.FilterChains[i]]]]

\* marshalFilters: the listener with the filters of the chains before the
\* first mixed one, and the error
marshalFilters(l, opts, chains) ==
  LET bad == {i \in 1..Len(chains) : Len(opts.filterChainOpts) > 0 /\ MixesFilters(opts, chains, i)}
      upto == IF Len(opts.filterChainOpts) = 0 THEN 0
              ELSE IF bad = {} THEN Len(chains)
              ELSE (CHOOSE i \in bad : \A j \in bad : i <= j) - 1
  IN [err |-> MarshalError(opts, chains),
      l |-> [l EXCEPT !.FilterChains =
               [i \in 1..Len(l.FilterChains) |->
                  IF i <= upto
                  THEN [l.FilterChains[i] EXCEPT !.Filters =
                          @ \o chains[i].TCP \o opts.filterChainOpts[i].networkFilters
                            \o (IF opts.filterChainOpts[i].httpOpts # Nil
                                THEN <<HTTPConnectionManager(opts.filterChainOpts[i].httpOpts, chains[i].HTTP)>>
                                ELSE <<>>)]
                  ELSE l.FilterChains[i]]]]

\* buildListenerOpts of a sidecar listener
ListenerOpts(ip, port, protocol, chainOpts, bindToPort) ==
  [ip |-> ip, port |-> port, protocol |-> protocol, filterChainOpts |-> chainOpts,
   bindToPort |-> bindToPort]

\* listenerMap and listenerTypeMap of buildSidecarOutboundListeners, in the
\* order the keys were added: entries [key, l, type]. log notes, for every
\* port that reaches a key, what became of it and the value of
\* conflictingOutbound after it.
MapIndex(map, key) ==
  IF \E i \in 1..Len(map) : map[i].key = key
  THEN CHOOSE i \in 1..Len(map) : map[i].key = key
  ELSE 0

NoOutbound == [map |-> <<>>, conflicting |-> 0, log |-> <<>>]

Logged(st, service, port, key, event) ==
  [st EXCEPT !.log = Append(@, [For |-> <<"outbound", service.Hostname, port.Port>>,
                                Key |-> key, Event |-> event, Conflicting |-> st.conflicting])]

\* the part of the loop body after the switch: buildListener, the plugins,
\* marshalFilters, and the merge with currentListener or the new map entry
OutboundBuild(env, st, service, port, listenAddress, chainOpts, cur) ==
  LET key == ListenerMapKey(listenAddress, port.Port)
      opts == ListenerOpts(listenAddress, port.Port, port.Protocol, chainOpts, FALSE)
      l == buildListener(opts, <<"outbound", service.Hostname, port.Port>>)
      chains == [i \in 1..Len(l.FilterChains) |->
                   IF i = 1 THEN OnListener(env.Plugin, ModelProtocolToListenerType(port.Protocol))
                   ELSE NoFilterChain]
      m == marshalFilters(l, opts, chains)
  IN IF m.err THEN Logged(st, service, port, key, "failed")
     ELSE IF cur # 0
     THEN Logged([st EXCEPT !.map[cur].l.FilterChains = @ \o m.l.FilterChains],
                 service, port, key, "merged")
     ELSE Logged([st EXCEPT !.map = Append(@, [key |-> key, l |-> m.l, type |-> port.Protocol])],
                 service, port, key, "built")

\* The body of the loop with a conflict counted for every port whose key is taken.
OutboundForServicePortCountsAll(env, st, service, port) ==
  LET type == ModelProtocolToListenerType(port.Protocol)
      clusterName == BuildSubsetKey("outbound", "", service.Hostname, port.Port)
      tcpAddress == IF service.Resolution # "Passthrough" THEN service.Address ELSE WildcardAddress
      listenAddress == IF type = "TCP" THEN tcpAddress ELSE WildcardAddress
      key == ListenerMapKey(listenAddress, port.Port)
      cur == MapIndex(st.map, key)
  IN IF type = "Unknown" THEN st
     ELSE IF cur # 0
     THEN Logged([st EXCEPT !.conflicting = @ + 1], service, port, key, "conflict")
     ELSE IF type = "HTTP"
     THEN OutboundBuild(env, st, service, port, listenAddress,
            <<ChainOpts(<<>>, Some(HttpOpts(<<"outbound", port.Port>>)), <<>>)>>, 0)
     ELSE OutboundBuild(env, st, service, port, listenAddress,
            <<ChainOpts(IF port.Protocol = "HTTPS" /\ service.MeshExternal
                        THEN <<service.Hostname>> ELSE <<>>,
                        Nil, NetworkFilters(clusterName))>>, 0)

\* The body of the loop over service.Ports (lines 338-475).
OutboundForServicePort(env, st, service, port) ==
  LET type == ModelProtocolToListenerType(port.Protocol)
      clusterName == BuildSubsetKey("outbound", "", service.Hostname, port.Port)
      tcpAddress == IF service.Resolution # "Passthrough" THEN service.Address ELSE WildcardAddress
      listenAddress == IF type = "TCP" THEN tcpAddress ELSE WildcardAddress
      key == ListenerMapKey(listenAddress, port.Port)
      cur == MapIndex(st.map, key)
  IN IF type = "HTTP"
     THEN IF cur # 0
          THEN IF ~IsHTTP(st.map[cur].type)
               THEN Logged([st EXCEPT !.conflicting = @ + 1], service, port, key, "conflict")
               ELSE Logged(st, service, port, key, "shared")
          ELSE OutboundBuild(env, st, service, port, listenAddress,
                 <<ChainOpts(<<>>, Some(HttpOpts(<<"outbound", port.Port>>)), <<>>)>>, 0)
     ELSE IF type = "TCP"
     THEN IF cur # 0 /\ (\/ ~IsTCP(st.map[cur].type)
                         \/ port.Protocol # "HTTPS"
                         \/ ~service.MeshExternal)
          THEN Logged([st EXCEPT !.conflicting = @ + 1], service, port, key, "conflict")
          ELSE OutboundBuild(env, st, service, port, listenAddress,
                 <<ChainOpts(IF port.Protocol = "HTTPS" /\ service.MeshExternal
                             THEN <<service.Hostname>> ELSE <<>>,
                             Nil, NetworkFilters(clusterName))>>, cur)
     ELSE st

\* the two loops, over the services and over the ports of each
RECURSIVE OutboundForServicePorts(_, _, _, _)
OutboundForServicePorts(env, st, service, ports) ==
  IF ports = <<>> THEN st
  ELSE OutboundForServicePorts(env, OutboundForServicePort(env, st, service, Head(ports)),
                               service, Tail(ports))

RECURSIVE OutboundForServices(_, _, _)
OutboundForServices(env, st, services) ==
  IF services = <<>> THEN st
  ELSE OutboundForServices(env,
         OutboundForServicePorts(env, st, Head(services), Head(services).Ports),
         Tail(services))

\* l.Validate(): the generated check of the listener, here given by the
\* environment as the set of keys whose listener fails it
Validate(env, key) == key \notin env.Invalid

\* range listenerMap visits the keys in no fixed order: order ranks the entries
Visited(map, order) ==
  LET ranked == SelectSeq(order, LAMBDA i : i <= Len(map))
  IN [i \in 1..Len(ranked) |-> map[ranked[i]]]

\* buildSidecarOutboundListeners: the TCP listeners, then the HTTP ones
buildSidecarOutboundListeners(env, services, order) ==
  LET st == OutboundForServices(env, NoOutbound, services)
      seen == Visited(st.map, order)
      valid == SelectSeq(seen, LAMBDA e : Validate(env, e.key))
      tcp == SelectSeq(valid, LAMBDA e : IsTCP(e.type))
      http == SelectSeq(valid, LAMBDA e : ~IsTCP(e.type))
  IN [listeners |-> [i \in 1..Len(tcp) |-> tcp[i].l] \o [i \in 1..Len(http) |-> http[i].l],
      conflicting |-> st.conflicting,
      invalid |-> Len(seen) - Len(valid),
      log |-> st.log]

\* buildSidecarInboundListeners: one listener per endpoint address and port,
\* the first instance of a key first; st is [listeners, keys, log]
InboundListenerFor(env, st, instance) ==
  LET endpoint == instance.Endpoint
      protocol == endpoint.ServicePort.Protocol
      key == ListenerMapKey(endpoint.Address, endpoint.Port)
      type == ModelProtocolToListenerType(protocol)
      for == <<"inbound", instance.Service.Hostname, endpoint.ServicePort.Port>>
      clusterName == BuildSubsetKey("inbound", "", instance.Service.Hostname, endpoint.ServicePort.Port)
      chainOpts == IF type = "HTTP"
                   THEN <<ChainOpts(<<>>, Some(HttpOpts(<<"inbound", endpoint.ServicePort.Port>>)), <<>>)>>
                   ELSE <<ChainOpts(<<>>, Nil, NetworkFilters(clusterName))>>
      opts == ListenerOpts(endpoint.Address, endpoint.Port, protocol, chainOpts, FALSE)
      l == buildListener(opts, for)
      chains == [i \in 1..Len(l.FilterChains) |->
                   IF i = 1 THEN OnListener(env.Plugin, type) ELSE NoFilterChain]
      m == marshalFilters(l, opts, chains)
      note(event) == Append(st.log, [For |-> for, Key |-> key, Event |-> event])
  IN IF key \in st.keys THEN [st EXCEPT !.log = note("conflict")]
     ELSE IF type = "Unknown" THEN st
     ELSE IF m.err THEN [st EXCEPT !.log = note("failed")]
     ELSE [listeners |-> Append(st.listeners, m.l), keys |-> st.keys \cup {key},
           log |-> note("built")]

RECURSIVE InboundListenersFor(_, _, _)
InboundListenersFor(env, st, instances) ==
  IF instances = <<>> THEN st
  ELSE InboundListenersFor(env, InboundListenerFor(env, st, Head(instances)), Tail(instances))

buildSidecarInboundListeners(env) ==
  InboundListenersFor(env, [listeners |-> <<>>, keys |-> {}, log |-> <<>>], env.Instances)

\* the protocols buildMgmtPortListeners builds a listener for
MgmtProtocols == {"HTTP", "HTTP2", "GRPC", "TCP", "HTTPS", "Mongo", "Redis"}

\* buildMgmtPortListeners: an inbound TCP listener per management port
RECURSIVE MgmtForPorts(_, _, _)
MgmtForPorts(managementIP, listeners, ports) ==
  IF ports = <<>> THEN listeners
  ELSE LET mPort == Head(ports)
           clusterName == BuildSubsetKey("inbound", "", ManagementClusterHostname, mPort.Port)
           opts == ListenerOpts(managementIP, mPort.Port, "TCP",
                                <<ChainOpts(<<>>, Nil, NetworkFilters(clusterName))>>, FALSE)
           m == marshalFilters(buildListener(opts, <<"mgmt", ManagementClusterHostname, mPort.Port>>),
                               opts, <<NoFilterChain>>)
       IN MgmtForPorts(managementIP,
                       IF mPort.Protocol \in MgmtProtocols /\ ~m.err THEN Append(listeners, m.l)
                       ELSE listeners,
                       Tail(ports))

buildMgmtPortListeners(managementPorts, managementIP) ==
  MgmtForPorts(IF managementIP = "" THEN LocalhostAddress ELSE managementIP, <<>>, managementPorts)

\* A loop that appends every management listener.
RECURSIVE AppendMgmtListenersAll(_, _)
AppendMgmtListenersAll(listeners, mgmt) ==
  IF mgmt = <<>> THEN listeners
  ELSE AppendMgmtListenersAll(Append(listeners, Head(mgmt)), Tail(mgmt))

\* the loop of lines 139-148: a management listener is appended unless a
\* listener of the list is bound to its address
RECURSIVE AppendMgmtListeners(_, _)
AppendMgmtListeners(listeners, mgmt) ==
  IF mgmt = <<>> THEN listeners
  ELSE AppendMgmtListeners(IF GetByAddress(listeners, Head(mgmt).Address) # Nil THEN listeners
                           ELSE Append(listeners, Head(mgmt)),
                           Tail(mgmt))

\* sort.Slice(services, by Hostname): the hostnames of a call are distinct
HostRank(h) == CHOOSE i \in 1..Len(Hostnames) : Hostnames[i] = h
SortByHostname(services) ==
  CHOOSE s \in [1..Len(services) -> {services[i] : i \in 1..Len(services)}] :
    /\ \A i \in 1..Len(services) : \E j \in 1..Len(services) : s[j] = services[i]
    /\ \A i, j \in 1..Len(services) : i < j => HostRank(s[i].Hostname) < HostRank(s[j].Hostname)

\* the listener of the port that receives the redirected traffic
VirtualListener(env) ==
  [Name |-> <<VirtualListenerName>>,
   Address |-> BuildAddress(WildcardAddress, env.ProxyListenPort),
   FilterChains |-> <<[SniDomains |-> <<>>,
                       Filters |-> <<[Kind |-> "network", Name |-> TCPProxy,
                                      Cluster |-> <<BlackHoleCluster>>]>>]>>,
   BindToPort |-> TRUE,
   UseOriginalDst |-> TRUE,
   For |-> <<"virtual", "", env.ProxyListenPort>>]

\* the listener of the HTTP proxy port (lines 182-225)
HttpProxyListener(env) ==
  LET opts == ListenerOpts(LocalhostAddress, env.ProxyHttpPort, "HTTP",
                           <<ChainOpts(<<>>, Some(HttpOpts(<<"outbound", RDSHttpProxy>>)), <<>>)>>, TRUE)
  IN marshalFilters(buildListener(opts, <<"http_proxy", "", env.ProxyHttpPort>>), opts, <<NoFilterChain>>)

\* buildSidecarListeners; order is the order in which the outbound listener
\* map is visited
buildSidecarListeners(env, order) ==
  IF env.Err # "nil"
  THEN [listeners |-> <<>>, err |-> env.Err, inbound |-> <<>>, outbound |-> <<>>, mgmt |-> <<>>,
        conflicting |-> 0, invalid |-> 0, log |-> <<>>, inboundLog |-> <<>>]
  ELSE LET services == SortByHostname(env.Services)
           inbound == buildSidecarInboundListeners(env)
           outbound == buildSidecarOutboundListeners(env, services, order)
           mgmt == buildMgmtPortListeners(env.ManagementPorts, env.NodeIP)
           proxied == IF env.ProxyListenPort > 0
                      THEN Append(AppendMgmtListeners(inbound.listeners \o outbound.listeners, mgmt),
                                  VirtualListener(env))
                      ELSE <<>>
           http == HttpProxyListener(env)
       IN [listeners |-> IF env.ProxyHttpPort > 0 /\ ~http.err THEN Append(proxied, http.l)
                         ELSE proxied,
           err |-> "nil",
           inbound |-> IF env.ProxyListenPort > 0 THEN inbound.listeners ELSE <<>>,
           outbound |-> IF env.ProxyListenPort > 0 THEN outbound.listeners ELSE <<>>,
           mgmt |-> IF env.ProxyListenPort > 0 THEN mgmt ELSE <<>>,
           conflicting |-> IF env.ProxyListenPort > 0 THEN outbound.conflicting ELSE 0,
           invalid |-> IF env.ProxyListenPort > 0 THEN outbound.invalid ELSE 0,
           log |-> IF env.ProxyListenPort > 0 THEN outbound.log ELSE <<>>,
           inboundLog |-> IF env.ProxyListenPort > 0 THEN inbound.log ELSE <<>>]

\* ---- the calls of buildSidecarListeners that are followed
\* a service of the registry: what decides its outbound listener
ServiceKinds ==
  {[Protocol |-> "HTTP", Resolution |-> "ClientSideLB", MeshExternal |-> FALSE],
   [Protocol |-> "TCP", Resolution |-> "ClientSideLB", MeshExternal |-> FALSE],
   [Protocol |-> "TCP", Resolution |-> "Passthrough", MeshExternal |-> FALSE],
   [Protocol |-> "HTTPS", Resolution |-> "Passthrough", MeshExternal |-> TRUE],
   [Protocol |-> "HTTPS", Resolution |-> "Passthrough", MeshExternal |-> FALSE],
   [Protocol |-> "UDP", Resolution |-> "ClientSideLB", MeshExternal |-> FALSE]}

\* service.GetServiceAddressForProxy(&node): the address of the service, one
\* per hostname
ServiceAddresses == <<"10.0.0.1", "10.0.0.2", "10.0.0.3">>

ListenerService(h, kind, portNumber) ==
  [Hostname |-> Hostnames[h], Address |-> ServiceAddresses[h],
   Resolution |-> kind.Resolution, MeshExternal |-> kind.MeshExternal,
   Ports |-> <<[Port |-> portNumber, Protocol |-> kind.Protocol]>>]

\* the services of env.Services(), in any order, hostnames distinct
ListenerServiceLists ==
  LET all == {ListenerService(h, k, p) : h \in 1..MaxListenerServices, k \in ServiceKinds,
                                        p \in {80, 81}}
      some == {s \in all : s.Hostname = Hostnames[1] => s.Ports[1].Port = 80}
  IN {l \in SeqsUpTo(some, MaxListenerServices) :
        \A i, j \in 1..Len(l) : l[i].Hostname = l[j].Hostname => i = j}

ListenerEnv(services, instances, mgmt, nodeIP, plugin, invalid, listenPort, httpPort, err) ==
  [Services |-> services, Instances |-> instances, ManagementPorts |-> mgmt, NodeIP |-> nodeIP,
   Plugin |-> plugin, Invalid |-> invalid, ProxyListenPort |-> listenPort,
   ProxyHttpPort |-> httpPort, Err |-> err]

\* the outbound side: services of every kind, no instance, no management port
OutboundEnvs ==
  {ListenerEnv(sv, <<>>, <<>>, "10.0.0.9", pg, inv, 15001, 0, "nil") :
     sv \in ListenerServiceLists, pg \in PluginKinds,
     inv \in {{}, {ListenerMapKey(WildcardAddress, 80)}}}

\* the proxy's own side: up to two instances on one endpoint, management
\* ports, and a service whose address is the proxy's
LocalInstance(protocol) ==
  [Service |-> [Hostname |-> Hostnames[1]],
   Endpoint |-> [Address |-> "10.0.0.1", Port |-> 8080,
                 ServicePort |-> [Port |-> IF protocol = "HTTP" THEN 80 ELSE 81,
                                  Protocol |-> protocol]]]
LocalInstanceLists ==
  {<<>>, <<LocalInstance("HTTP"), LocalInstance("TCP")>>}
    \cup {<<LocalInstance(p)>> : p \in {"HTTP", "TCP", "UDP"}}
MgmtPortLists ==
  SeqsUpTo({[Port |-> n, Protocol |-> p] : n \in {8080, 9090}, p \in {"HTTP", "TCP", "UDP"}},
           MaxMgmtPorts)
LocalEnvs ==
  {ListenerEnv(sv, ins, mp, ip, pg, {}, lp, hp, "nil") :
     sv \in {<<>>, <<ListenerService(1, [Protocol |-> "TCP", Resolution |-> "ClientSideLB",
                                        MeshExternal |-> FALSE], 9090)>>},
     ins \in LocalInstanceLists, mp \in MgmtPortLists, ip \in {"10.0.0.1", ""},
     pg \in {"none", "http"}, lp \in {0, 15001}, hp \in {0, 15002}}

FailedEnvs ==
  {ListenerEnv(<<>>, <<>>, <<>>, "10.0.0.9", "none", {}, 15001, 0, e) :
     e \in {"Services", "GetProxyServiceInstances"}}

ListenerInputs == OutboundEnvs \cup LocalEnvs \cup FailedEnvs

\* the orders in which a map of up to MaxListenerServices keys is visited
MapOrders ==
  {o \in [1..MaxListenerServices -> 1..MaxListenerServices] :
     \A i, j \in 1..MaxListenerServices : o[i] = o[j] => i = j}

InitListeners ==
  /\ InitAds([c \in Conns |-> 0], {}, {}, 0)
  /\ task = [t \in Tasks |-> NoTask]
  /\ step = NoStep
  /\ build \in {[NoBuild EXCEPT !.in = Some(i)] : i \in ListenerInputs}

CallBuildListeners(order) ==
  /\ build.call = ""
  /\ build' = [build EXCEPT !.call = "BuildListeners",
                            !.out = buildSidecarListeners(build.in[1], order)]
  /\ UNCHANGED <<adsVars, task, step>>

NextListeners == \E order \in MapOrders : CallBuildListeners(order)
SpecListeners == InitListeners /\ [][NextListeners]_vars

ListenersBuilt == build.call = "BuildListeners" /\ build.out.err = "nil"
ListenersFor == build.in[1]
Listeners == build.out.listeners

OutboundLog == build.out.log
\* the service port an entry of the log is about
LoggedService(e) == CHOOSE s \in {ListenersFor.Services[i] : i \in 1..Len(ListenersFor.Services)} :
                      s.Hostname = e.For[2]
LoggedProtocol(e) == LoggedService(e).Ports[1].Protocol
\* by how much the port of entry j raised conflictingOutbound
ConflictsOf(j) == OutboundLog[j].Conflicting - (IF j = 1 THEN 0 ELSE OutboundLog[j - 1].Conflicting)
\* the outbound listeners returned for a key
EmittedFor(key) == {i \in 1..Len(build.out.outbound) : build.out.outbound[i].Address = key}
\* the first port that reaches the key, and the first whose listener is built
FirstOn(key) == CHOOSE i \in 1..Len(OutboundLog) :
                  /\ OutboundLog[i].Key = key
                  /\ \A k \in 1..(i - 1) : OutboundLog[k].Key # key
Builders(key) == {i \in 1..Len(OutboundLog) : OutboundLog[i].Key = key /\ OutboundLog[i].Event = "built"}
\* an HTTPS port of a mesh-external service, told apart by SNI
SniPort(e) == LoggedProtocol(e) = "HTTPS" /\ LoggedService(e).MeshExternal

\* C32 as stated: of two service ports with the same outbound listener key
\* the first in hostname order wins; exactly one listener is emitted for the
\* key, the one built for the first port, and the later port raises
\* pilot_conf_out_listeners by exactly one.
C32_FirstWinsLaterCounted ==
  (ListenersBuilt /\ ListenersFor.ProxyListenPort > 0) =>
    \A i, j \in 1..Len(OutboundLog) :
      (i < j /\ OutboundLog[i].Key = OutboundLog[j].Key) =>
        /\ HostRank(OutboundLog[i].For[2]) < HostRank(OutboundLog[j].For[2])
        /\ Cardinality(EmittedFor(OutboundLog[i].Key)) = 1
        /\ \A k \in EmittedFor(OutboundLog[i].Key) :
             build.out.outbound[k].For = OutboundLog[FirstOn(OutboundLog[i].Key)].For
        /\ ConflictsOf(j) = 1

\* C32, amended: the ports reach a key in hostname order; the first port
\* whose listener is built keeps the key: the only listener that can be
\* emitted for the key is the one built for that port, and it is emitted
\* unless it fails validation. A later port on the key raises
\* pilot_conf_out_listeners by exactly one when its listener type differs
\* from the kept listener's, or when both are TCP and the later port is not
\* an HTTPS port of a mesh-external service; a later HTTP port on an HTTP
\* listener, and a later external HTTPS port on a TCP listener (its filter
\* chain is appended, unless its filters fail), leave the counter unchanged,
\* as does every port before the first one built.
C32_FirstBuiltWins ==
  (ListenersBuilt /\ ListenersFor.ProxyListenPort > 0) =>
    /\ \A i, j \in 1..Len(OutboundLog) :
         i < j => HostRank(OutboundLog[i].For[2]) < HostRank(OutboundLog[j].For[2])
    /\ build.out.conflicting = (IF OutboundLog = <<>> THEN 0
                                ELSE OutboundLog[Len(OutboundLog)].Conflicting)
    /\ \A j \in 1..Len(OutboundLog) :
         LET key == OutboundLog[j].Key
             built == Builders(key)
             b == CHOOSE i \in built : \A k \in built : i <= k
         IN /\ Cardinality(built) <= 1
            /\ Cardinality(EmittedFor(key)) = (IF built # {} /\ Validate(ListenersFor, key) THEN 1 ELSE 0)
            /\ \A k \in EmittedFor(key) :
                 /\ build.out.outbound[k].For = OutboundLog[b].For
                 /\ build.out.outbound[k].Name = <<key[1], "_", key[2]>>
            /\ (built = {} \/ (built # {} /\ j <= b)) => ConflictsOf(j) = 0
            /\ (built # {} /\ j > b) =>
                 ConflictsOf(j) =
                   (IF IsHTTP(LoggedProtocol(OutboundLog[j]))
                    THEN (IF IsHTTP(LoggedProtocol(OutboundLog[b])) THEN 0 ELSE 1)
                    ELSE IF IsTCP(LoggedProtocol(OutboundLog[b])) /\ SniPort(OutboundLog[j])
                    THEN 0 ELSE 1)

\* an HTTP and a TCP port on the wildcard address and the same port number:
\* the first is built and emitted, the second is counted as a conflict
C32_Witness ==
  /\ ListenersBuilt
  /\ Len(OutboundLog) = 2
  /\ OutboundLog[1].Key = OutboundLog[2].Key
  /\ OutboundLog[1].Event = "built"
  /\ OutboundLog[2].Event = "conflict"
  /\ build.out.conflicting = 1
  /\ Cardinality(EmittedFor(OutboundLog[1].Key)) = 1

\* the inbound and outbound listeners of the call, and the management
\* listeners buildMgmtPortListeners built for it
ServiceListeners == build.out.inbound \o build.out.outbound
MgmtListeners == build.out.mgmt
\* a management listener collides when a service listener, or a management
\* listener before it, is bound to its address
Collides(k) ==
  \/ \E i \in 1..Len(ServiceListeners) : ServiceListeners[i].Address = MgmtListeners[k].Address
  \/ \E j \in 1..(k - 1) : MgmtListeners[j].Address = MgmtListeners[k].Address
KeptMgmt == SelectSeq([k \in 1..Len(MgmtListeners) |-> k], LAMBDA k : ~Collides(k))

\* C33: the list of a sidecar starts with the inbound and outbound listeners
\* as they were built, followed by the management listeners whose address no
\* listener before them in the list has, each as it was built; a management
\* listener whose address is taken is not in the list.
C33_MgmtDroppedOnCollision ==
  (ListenersBuilt /\ ListenersFor.ProxyListenPort > 0) =>
    /\ Len(Listeners) >= Len(ServiceListeners) + Len(KeptMgmt) + 1
    /\ \A i \in 1..Len(ServiceListeners) : Listeners[i] = ServiceListeners[i]
    /\ \A i \in 1..Len(KeptMgmt) :
         Listeners[Len(ServiceListeners) + i] = MgmtListeners[KeptMgmt[i]]
    /\ Listeners[Len(ServiceListeners) + Len(KeptMgmt) + 1].For[1] = "virtual"
    /\ \A k \in 1..Len(MgmtListeners) :
         Collides(k) => \A i \in 1..Len(Listeners) : Listeners[i].For # MgmtListeners[k].For
                          \/ (\E j \in 1..(k - 1) : MgmtListeners[j] = MgmtListeners[k])

\* a management port on the address of an inbound listener is dropped, and
\* another management port is kept
C33_Witness ==
  /\ ListenersBuilt
  /\ ListenersFor.ProxyListenPort > 0
  /\ \E k \in 1..Len(MgmtListeners) :
       \E i \in 1..Len(build.out.inbound) : build.out.inbound[i].Address = MgmtListeners[k].Address
  /\ KeptMgmt # <<>>

\* whether the filters of the listener type and those the plugins add for it
\* are of both kinds, network and HTTP
MixedFor(protocol) ==
  LET type == ModelProtocolToListenerType(protocol)
      added == OnListener(ListenersFor.Plugin, type)
  IN (type = "HTTP" /\ added.TCP # <<>>) \/ (type = "TCP" /\ added.HTTP # <<>>)
\* the instance an entry of the inbound log is about
LoggedInstance(e) ==
  CHOOSE ins \in {ListenersFor.Instances[i] : i \in 1..Len(ListenersFor.Instances)} :
    ins.Endpoint.ServicePort.Port = e.For[3]
HasKind(chain, kind) == \E f \in 1..Len(chain.Filters) : chain.Filters[f].Kind = kind
\* a returned listener holds something built for the port or instance
Carries(l, for, clusterName) ==
  \/ l.For = for
  \/ \E c \in 1..Len(l.FilterChains) : \E f \in 1..Len(l.FilterChains[c].Filters) :
       l.FilterChains[c].Filters[f].Cluster = clusterName

\* C34: a port or instance whose listener reaches marshalFilters gets an
\* error exactly when its chain would hold network filters together with
\* HTTP filters or HTTP options; nothing built for such a port or instance is
\* in the returned list, and no filter chain of a returned listener holds
\* filters of both kinds.
C34_MixedFiltersRejected ==
  ListenersBuilt =>
    /\ \A i \in 1..Len(Listeners) : \A c \in 1..Len(Listeners[i].FilterChains) :
         ~(HasKind(Listeners[i].FilterChains[c], "network") /\ HasKind(Listeners[i].FilterChains[c], "http"))
    /\ \A j \in 1..Len(OutboundLog) :
         LET e == OutboundLog[j]
         IN e.Event \in {"built", "merged", "failed"} =>
              /\ e.Event = "failed" <=> MixedFor(LoggedProtocol(e))
              /\ e.Event = "failed" =>
                   \A i \in 1..Len(Listeners) :
                     ~Carries(Listeners[i], e.For, BuildSubsetKey("outbound", "", e.For[2], e.For[3]))
    /\ \A j \in 1..Len(build.out.inboundLog) :
         LET e == build.out.inboundLog[j]
         IN e.Event \in {"built", "failed"} =>
              /\ e.Event = "failed" <=> MixedFor(LoggedInstance(e).Endpoint.ServicePort.Protocol)
              /\ e.Event = "failed" =>
                   \A i \in 1..Len(Listeners) :
                     ~Carries(Listeners[i], e.For, BuildSubsetKey("inbound", "", e.For[2], e.For[3]))

\* the plugins add an HTTP filter to the TCP listener of one port, which is
\* left out, while the HTTP listener of another port is returned
C34_Witness ==
  /\ ListenersBuilt
  /\ \E j \in 1..Len(OutboundLog) : OutboundLog[j].Event = "failed"
  /\ \E j \in 1..Len(OutboundLog) : OutboundLog[j].Event = "built"
  /\ build.out.outbound # <<>>

\* ------------------------------------------------ v1 routes and clusters
MaxLabels == 3
MaxHostLists == 2

\* A host name is the list of its labels: strings.Split(name, ".") of a name
\* and strings.Join(labels, ".") of its labels.
\* the panic of an index out of range
Panic == [panic |-> TRUE, out |-> <<>>]
Result(x) == [panic |-> FALSE, out |-> x]

\* the pass of sharedHost's outer loop for i: "all" when every host has the
\* label of parts[0] at i from its end, "break" at the first host that has
\* another one, "panic" when a host before that has fewer than i labels
RECURSIVE SharedAt(_, _, _)
SharedAt(parts, i, j) ==
  IF j > Len(parts) THEN "all"
  ELSE IF Len(parts[j]) < i THEN "panic"
  ELSE IF parts[j][Len(parts[j]) - i + 1] # parts[1][Len(parts[1]) - i + 1] THEN "break"
  ELSE SharedAt(parts, i, j + 1)

\* the outer loop from i on: the labels appended to out, in that order
RECURSIVE SharedFrom(_, _)
SharedFrom(parts, i) ==
  IF i > Len(parts[1]) THEN Result(<<>>)
  ELSE LET pass == SharedAt(parts, i, 2)
       IN IF pass = "panic" THEN Panic
          ELSE IF pass = "break" THEN Result(<<>>)
          ELSE LET rest == SharedFrom(parts, i + 1)
               IN IF rest.panic THEN Panic
                  ELSE Result(<<parts[1][Len(parts[1]) - i + 1]>> \o rest.out)

Reverse(s) == [i \in 1..Len(s) |-> s[Len(s) - i + 1]]

\* sharedHost(parts ...[]string)
sharedHost(parts) ==
  IF Len(parts) = 0 THEN Result(<<>>)
  ELSE IF Len(parts) = 1 THEN Result(parts[1])
  ELSE LET r == SharedFrom(parts, 1)
       IN IF r.panic THEN Panic ELSE Result(Reverse(r.out))

\* fmt.Sprintf("%s:%d", host, port), and the host alone
WithPort(host, port) == [Host |-> host, Port |-> Some(port)]
Bare(host) == [Host |-> host, Port |-> Nil]

RECURSIVE DomainsOf(_, _)
DomainsOf(hosts, port) ==
  IF hosts = <<>> THEN <<>>
  ELSE <<WithPort(Head(hosts), port.Port), Bare(Head(hosts))>> \o DomainsOf(Tail(hosts), port)

\* BuildVirtualHost whose domains all carry the port.
BuildVirtualHostPortOnly(svc, port, suffix, routes) ==
  LET parts == svc.Hostname
      shared == sharedHost(<<suffix, parts>>)
      host == SubSeq(parts, 1, Len(parts) - Len(shared.out))
      hosts == (IF Len(host) > 0 THEN <<host>> ELSE <<>>)
                 \o [k \in 1..Len(shared.out) |-> host \o SubSeq(shared.out, 1, k)]
                 \o (IF svc.Address # "" THEN <<<<svc.Address>>>> ELSE <<>>)
  IN IF shared.panic THEN Panic
     ELSE Result([Name |-> <<svc.Hostname, port.Port>>,
                    Domains |-> [i \in 1..Len(hosts) |-> WithPort(hosts[i], port.Port)],
                    Routes |-> routes])

\* BuildVirtualHost: the hostname without the labels it shares with the
\* proxy's suffix, then with one more of them at a time, then the address
BuildVirtualHost(svc, port, suffix, routes) ==
  LET parts == svc.Hostname
      shared == sharedHost(<<suffix, parts>>)
      host == SubSeq(parts, 1, Len(parts) - Len(shared.out))
      hosts == (IF Len(host) > 0 THEN <<host>> ELSE <<>>)
                 \o [k \in 1..Len(shared.out) |-> host \o SubSeq(shared.out, 1, k)]
                 \o (IF svc.Address # "" THEN <<<<svc.Address>>>> ELSE <<>>)
  IN IF shared.panic THEN Panic
     ELSE Result([Name |-> <<svc.Hostname, port.Port>>,
                    Domains |-> DomainsOf(hosts, port),
                    Routes |-> routes])

\* Text is a list of pieces; a number among them stands for its decimal digits.
\* fmt.Sprint(a, b) with a string a: the operands one after the other
Sprint(a, b) == <<a, b>>
\* fmt.Sprintf("%d", n)
Decimal(n) == <<n>>

\* host names that hold a colon or a percent sign
IPv6Hosts == {"::1"}
\* net.JoinHostPort(host, port)
JoinHostPort(host, port) ==
  IF host \in IPv6Hosts THEN <<"[", host, "]:">> \o port ELSE <<host, ":">> \o port

\* joinIPPort(ip, port)
joinIPPort(ip, port) == JoinHostPort(ip, Sprint("%d", port))

ClusterTypeSDS == "sds"
ClusterTypeStrictDNS == "strict_dns"

\* BuildOutboundCluster(hostname, port, labels, isExternal)
BuildOutboundCluster(hostname, port, labels, isExternal) ==
  [Name |-> <<"out.", hostname, port.Name, labels>>,
   ServiceName |-> <<hostname, port.Name, labels>>,
   Type |-> IF isExternal THEN ClusterTypeStrictDNS ELSE ClusterTypeSDS,
   LbType |-> DefaultLbType,
   Hosts |-> IF isExternal THEN <<[URL |-> <<"tcp://">> \o joinIPPort(hostname, port.Port)]>>
             ELSE <<>>,
   outbound |-> ~isExternal,
   Hostname |-> hostname,
   Port |-> port]

\* ---- the calls that are followed
HostLabels == {"ns", "local"}
LabelLists == SeqsUpTo(HostLabels, MaxLabels)
ServiceLabelLists == SeqsUpTo(HostLabels \cup {"a"}, MaxLabels)

SharedHostInputs == {[call |-> "sharedHost", parts |-> p] : p \in SeqsUpTo(LabelLists, MaxHostLists)}
VirtualHostInputs ==
  {[call |-> "BuildVirtualHost", svc |-> [Hostname |-> h, Address |-> a],
    port |-> [Port |-> 80, Name |-> "http"], suffix |-> s] :
     h \in ServiceLabelLists \ {<<>>}, a \in {"", "10.0.0.1"}, s \in ServiceLabelLists}
OutboundClusterInputs ==
  {[call |-> "BuildOutboundCluster", hostname |-> h, port |-> [Port |-> n, Name |-> "http"],
    isExternal |-> e] :
     h \in {"a.ns", "ext.com", "::1"}, n \in {80, 8080}, e \in BOOLEAN}

InitRoutes ==
  /\ InitAds([c \in Conns |-> 0], {}, {}, 0)
  /\ task = [t \in Tasks |-> NoTask]
  /\ step = NoStep
  /\ build \in {[NoBuild EXCEPT !.in = Some(i)] :
                  i \in SharedHostInputs \cup VirtualHostInputs \cup OutboundClusterInputs}

CallSharedHost ==
  /\ build.call = ""
  /\ build.in[1].call = "sharedHost"
  /\ build' = [build EXCEPT !.call = "sharedHost", !.out = sharedHost(build.in[1].parts)]
  /\ UNCHANGED <<adsVars, task, step>>

CallBuildVirtualHost ==
  /\ build.call = ""
  /\ build.in[1].call = "BuildVirtualHost"
  /\ build' = [build EXCEPT !.call = "BuildVirtualHost",
                            !.out = BuildVirtualHost(build.in[1].svc, build.in[1].port,
                                                     build.in[1].suffix, <<>>)]
  /\ UNCHANGED <<adsVars, task, step>>

CallBuildOutboundCluster ==
  /\ build.call = ""
  /\ build.in[1].call = "BuildOutboundCluster"
  /\ build' = [build EXCEPT !.call = "BuildOutboundCluster",
                            !.out = BuildOutboundCluster(build.in[1].hostname, build.in[1].port,
                                                         <<>>, build.in[1].isExternal)]
  /\ UNCHANGED <<adsVars, task, step>>

NextRoutes == CallSharedHost \/ CallBuildVirtualHost \/ CallBuildOutboundCluster
SpecRoutes == InitRoutes /\ [][NextRoutes]_vars

\* a list is a suffix of another
IsSuffix(s, l) == Len(s) <= Len(l) /\ s = SubSeq(l, Len(l) - Len(s) + 1, Len(l))
\* the longest list that is a suffix of every list of parts (one list at least)
LongestCommonSuffix(parts) ==
  CHOOSE s \in {SubSeq(parts[1], k, Len(parts[1])) : k \in 1..(Len(parts[1]) + 1)} :
    /\ \A j \in 1..Len(parts) : IsSuffix(s, parts[j])
    /\ \A k \in 1..Len(parts[1]) :
         (\A j \in 1..Len(parts) : IsSuffix(SubSeq(parts[1], k, Len(parts[1])), parts[j]))
           => Len(parts[1]) - k + 1 <= Len(s)

\* C37: sharedHost returns, for any lists of labels, the longest common
\* suffix of the lists, and BuildVirtualHost returns for any hostname and
\* any suffix of the proxy.
C37_SharedHostLongestSuffix ==
  /\ build.call = "sharedHost" =>
       /\ ~build.out.panic
       /\ build.in[1].parts # <<>> => build.out.out = LongestCommonSuffix(build.in[1].parts)
  /\ build.call = "BuildVirtualHost" => ~build.out.panic

\* the host forms of a service: the hostname less the labels it shares with
\* the proxy's suffix, with none to all of them put back, and the address
HostForms(svc, suffix) ==
  LET shared == LongestCommonSuffix(<<suffix, svc.Hostname>>)
  IN ({SubSeq(svc.Hostname, 1, Len(svc.Hostname) - t) : t \in 0..Len(shared)} \ {<<>>})
       \cup (IF svc.Address # "" THEN {<<svc.Address>>} ELSE {})

\* C35: the domains of the virtual host BuildVirtualHost returns are, for
\* every host form of the service, the form with the port and the form
\* alone, each once, and nothing else.
C35_DomainsPerHostForm ==
  (build.call = "BuildVirtualHost" /\ ~build.out.panic) =>
    LET domains == build.out.out.Domains
        forms == HostForms(build.in[1].svc, build.in[1].suffix)
    IN /\ {domains[i] : i \in 1..Len(domains)} =
            {WithPort(f, build.in[1].port.Port) : f \in forms} \cup {Bare(f) : f \in forms}
       /\ Len(domains) = 2 * Cardinality(forms)

\* a service with an address whose hostname shares two labels with the proxy
C35_Witness ==
  /\ build.call = "BuildVirtualHost"
  /\ ~build.out.panic
  /\ build.in[1].svc.Address # ""
  /\ Len(build.in[1].svc.Hostname) = 3
  /\ Len(build.out.out.Domains) = 8

\* C38: for an external service BuildOutboundCluster gives a strict-DNS
\* cluster with one host, tcp://<hostname>:<port> with the port in decimal;
\* for any other service an SDS cluster without hosts.
C38_ExternalHostUrl ==
  build.call = "BuildOutboundCluster" =>
    IF build.in[1].isExternal
    THEN /\ build.out.Type = ClusterTypeStrictDNS
         /\ build.out.Hosts = <<[URL |-> <<"tcp://", build.in[1].hostname, ":">>
                                           \o Decimal(build.in[1].port.Port)]>>
    ELSE /\ build.out.Type = ClusterTypeSDS
         /\ build.out.Hosts = <<>>

====
